---- MODULE Spec2Model ----
(***************************************************************************)
(* A model of github.com/woozymasta/pbo: the PBO archive writer (Pack and  *)
(* the shared rewrite core), the reader/parser with its offset resolver,   *)
(* the signature hash set, the SHA-1 trailer and the transactional editor. *)
(*                                                                         *)
(* Files are sequences of bytes (integers 0..255); offsets are 0-based as  *)
(* in the Go code, so byte `off` of b is b[off + 1].  Strings are byte     *)
(* sequences too, so that case folding, path cleaning and ordering are     *)
(* computed on the characters.                                             *)
(*                                                                         *)
(* TLC's integers are 32-bit signed, so the width of the uint32 size and   *)
(* offset arithmetic is the parameter WordBits: MaxUint32 = 2^WordBits-1.  *)
(* The on-disk fields stay four little-endian bytes.                       *)
(***************************************************************************)
EXTENDS Integers, Sequences, FiniteSets, TLC

VARIABLES
    pc,      \* position of the running scenario / of Editor.Commit
    call,    \* arguments of the operation under way (inputs, options, staged ops)
    file,    \* bytes of the archive path on disk, or NoFile
    baks,    \* backup generations: baks[0] is `.bak`, baks[i] is `.bak.i`
    ret,     \* what the operations returned (errors, entries, hash sets, bytes read)
    hist,    \* history of the scenario: contents v0, v1, ... and what was observed
    chans    \* channels, context and mutex shared by the goroutines of a running call

vars == <<pc, call, file, baks, ret, hist, chans>>

(***************************************************************************)
(* Bounds of the model                                                     *)
(***************************************************************************)
WordBits == 8
MaxInputs == 2
MaxEntries == 2
MaxOps == 2
MaxKeep == 2
MaxCommits == 3

(***************************************************************************)
(* Format constants                                                        *)
(***************************************************************************)
headerSize == 21
shaSize == 20
maxNameLen == 512
MimeHeader == 1449489011
MimeCompress == 1131442803
MimeNil == 0
DefaultMinCompressSize == 512
DefaultMaxCompressSize == 16777216

MaxUint32 == 2^WordBits - 1
maxPBOData == MaxUint32 + 1

NoFile == <<-1>>

(***************************************************************************)
(* Byte-sequence helpers                                                   *)
(***************************************************************************)
Slice(b, from, to) ==
    \* Go's b[from:to] with 0-based bounds
    IF to <= from THEN <<>> ELSE SubSeq(b, from + 1, to)

Zeros(n) == [i \in 1..n |-> 0]

Repeat(x, n) == [i \in 1..n |-> x]

RECURSIVE Concat(_)
Concat(ss) == IF ss = <<>> THEN <<>> ELSE Head(ss) \o Concat(Tail(ss))

MinOf(S) == CHOOSE x \in S : \A y \in S : x <= y

IndexByte(b, from, c) ==
    \* least offset >= from holding byte c, or -1
    IF \A i \in from..(Len(b) - 1) : b[i + 1] # c THEN -1
    ELSE CHOOSE i \in from..(Len(b) - 1) :
            b[i + 1] = c /\ \A j \in from..(i - 1) : b[j + 1] # c

HasPrefix(s, p) == Len(s) >= Len(p) /\ SubSeq(s, 1, Len(p)) = p

HasSuffix(s, p) == Len(s) >= Len(p) /\ SubSeq(s, Len(s) - Len(p) + 1, Len(s)) = p

ReplaceByte(s, from, to) == [i \in 1..Len(s) |-> IF s[i] = from THEN to ELSE s[i]]

RECURSIVE StrLess(_, _)
StrLess(a, b) ==
    \* Go's a < b on strings: bytewise lexicographic
    IF b = <<>> THEN FALSE
    ELSE IF a = <<>> THEN TRUE
    ELSE IF Head(a) # Head(b) THEN Head(a) < Head(b)
    ELSE StrLess(Tail(a), Tail(b))

PutUint32(v) ==
    <<v % 256, (v \div 256) % 256, (v \div 65536) % 256, (v \div 16777216) % 256>>

Uint32At(b, off) ==
    b[off + 1] + 256 * b[off + 2] + 65536 * b[off + 3] + 16777216 * b[off + 4]

(***************************************************************************)
(* Paths (NormalizePath, normalizeArchiveEntryPath, strings.ToLower)       *)
(***************************************************************************)
IsSpace(c) == c \in {9, 10, 11, 12, 13, 32}

RECURSIVE TrimLeft(_)
TrimLeft(s) == IF s # <<>> /\ IsSpace(Head(s)) THEN TrimLeft(Tail(s)) ELSE s

RECURSIVE TrimRight(_)
TrimRight(s) ==
    IF s # <<>> /\ IsSpace(s[Len(s)]) THEN TrimRight(SubSeq(s, 1, Len(s) - 1)) ELSE s

TrimSpace(s) == TrimRight(TrimLeft(s))

TrimPrefix(s, p) == IF HasPrefix(s, p) THEN SubSeq(s, Len(p) + 1, Len(s)) ELSE s

RECURSIVE SplitSlash(_)
SplitSlash(s) ==
    \* strings.Split(s, "/")
    LET i == IndexByte(s, 0, 47)
    IN  IF i < 0 THEN <<s>>
        ELSE <<Slice(s, 0, i)>> \o SplitSlash(Slice(s, i + 1, Len(s)))

RECURSIVE JoinSlash(_)
JoinSlash(segs) ==
    IF segs = <<>> THEN <<>>
    ELSE IF Len(segs) = 1 THEN segs[1]
    ELSE segs[1] \o <<47>> \o JoinSlash(Tail(segs))

RECURSIVE CleanSegments(_, _)
CleanSegments(segs, acc) ==
    \* path.Clean of a rooted path: empty and "." elements go, ".." removes the
    \* element before it, and ".." at the root goes
    IF segs = <<>> THEN acc
    ELSE LET seg == Head(segs)
         IN  IF seg = <<>> \/ seg = <<46>> THEN CleanSegments(Tail(segs), acc)
             ELSE IF seg = <<46, 46>>
                  THEN CleanSegments(Tail(segs),
                                     IF acc = <<>> THEN acc ELSE SubSeq(acc, 1, Len(acc) - 1))
             ELSE CleanSegments(Tail(segs), Append(acc, seg))

normalizePathForMatching(path) ==
    TrimPrefix(ReplaceByte(TrimSpace(path), 92, 47), <<46, 47>>)

NormalizePath(raw) ==
    \* TrimPrefix "/", path.Clean("/" + raw), TrimPrefix "/", "." -> "", TrimSuffix "/"
    JoinSlash(CleanSegments(SplitSlash(TrimPrefix(normalizePathForMatching(raw), <<47>>)), <<>>))

normalizeArchiveEntryPath(raw) ==
    \* [err, path]: the canonical archive form with "\" separators
    LET n == NormalizePath(raw)
    IN  IF n = <<>> THEN [err |-> "ErrInvalidEntryPath", path |-> <<>>]
        ELSE [err |-> "", path |-> ReplaceByte(n, 47, 92)]

NormalizePrefixHeader(raw) == ReplaceByte(NormalizePath(raw), 47, 92)

ToLower(s) ==
    \* strings.ToLower on valid UTF-8: ASCII A-Z, and the two-byte Latin-1 capitals
    \* (0xC3 0x80..0x9E without the multiplication sign 0x97); 0xC3 is never a
    \* continuation byte, so the byte after it is the second byte of its rune
    [i \in 1..Len(s) |->
        IF s[i] \in 65..90 THEN s[i] + 32
        ELSE IF i > 1 /\ s[i - 1] = 195 /\ s[i] \in ((128..158) \ {151}) THEN s[i] + 32
        ELSE s[i]]

asciiLower(s) == [i \in 1..Len(s) |-> IF s[i] \in 65..90 THEN s[i] + 32 ELSE s[i]]

EqualFold(a, b) == ToLower(a) = ToLower(b)

(***************************************************************************)
(* Compression rules (compressMatcher over the external pathrules matcher: *)
(* ordered include/exclude globs, last match wins, default Exclude,        *)
(* case-insensitive).  The globs modelled are `*`, `*suffix` on the last   *)
(* path element, and a literal path.                                       *)
(***************************************************************************)
BaseName(p) ==
    LET segs == SplitSlash(p) IN segs[Len(segs)]

GlobMatch(pattern, path) ==
    LET pat == ToLower(pattern)
        cand == ToLower(path)
    IN  IF pat = <<42>> THEN TRUE
        ELSE IF Head(pat) = 42 THEN HasSuffix(BaseName(cand), Tail(pat))
        ELSE cand = pat \/ BaseName(cand) = pat

normalizeCompressRules(rules) ==
    SelectSeq([i \in 1..Len(rules) |->
                  [include |-> rules[i].include,
                   Pattern |-> normalizePathForMatching(rules[i].Pattern)]],
              LAMBDA r : r.Pattern # <<>>)

newCompressMatcher(rules) ==
    \* a nil matcher (no rule left) is the empty sequence
    normalizeCompressRules(rules)

RECURSIVE Included(_, _, _)
Included(rules, candidate, decision) ==
    IF rules = <<>> THEN decision
    ELSE Included(Tail(rules), candidate,
                  IF GlobMatch(Head(rules).Pattern, candidate)
                  THEN Head(rules).include ELSE decision)

Match(matcher, path) ==
    LET candidate == NormalizePath(path)
    IN  IF matcher = <<>> \/ candidate = <<>> THEN FALSE
        ELSE Included(matcher, candidate, FALSE)

applyDefaults(opts) ==
    LET min == IF opts.MinCompressSize = 0 THEN DefaultMinCompressSize
               ELSE opts.MinCompressSize
        max == IF opts.MaxCompressSize = 0 \/ opts.MaxCompressSize <= min
               THEN DefaultMaxCompressSize ELSE opts.MaxCompressSize
    IN  [opts EXCEPT !.MinCompressSize = min, !.MaxCompressSize = max]

shouldCompressBySize(opts, size) ==
    ~(size > opts.MaxCompressSize \/ size < opts.MinCompressSize)

shouldCompress(opts, matcher, path, size) ==
    shouldCompressBySize(opts, size) /\ matcher # <<>> /\ Match(matcher, path)

(***************************************************************************)
(* LZSS codec.  The codec is the external library github.com/woozymasta/   *)
(* lzss; the archive code only relies on its interface (compress a buffer; *)
(* decompress a stream to a known output length).  It is modelled by a     *)
(* run-length code with the same interface: (count, byte) pairs, so that   *)
(* compressed data is shorter for runs, longer otherwise, and different    *)
(* from the raw bytes.                                                     *)
(***************************************************************************)
RunLen(s) ==
    \* length of the run of Head(s) that s starts with (a count fits one byte)
    LET stop == CHOOSE i \in 1..Len(s) :
                    /\ i = Len(s) \/ s[i + 1] # s[1]
                    /\ \A j \in 1..(i - 1) : s[j + 1] = s[1]
    IN  IF stop > 255 THEN 255 ELSE stop

RECURSIVE compressLZSS(_)
compressLZSS(data) ==
    IF data = <<>> THEN <<>>
    ELSE LET n == RunLen(data)
         IN  <<n, Head(data)>> \o compressLZSS(SubSeq(data, n + 1, Len(data)))

RECURSIVE Expand(_)
Expand(packed) ==
    IF Len(packed) < 2 THEN <<>>
    ELSE Repeat(packed[2], packed[1]) \o Expand(SubSeq(packed, 3, Len(packed)))

DecompressToWriter(packed, outLen) ==
    \* [err, data]: exactly outLen bytes, or an error when the stream ends early
    LET full == Expand(packed)
    IN  IF Len(full) < outLen THEN [err |-> "ErrDecompress", data |-> full]
        ELSE [err |-> "", data |-> SubSeq(full, 1, outLen)]

(***************************************************************************)
(* SHA-1.  A digest is 20 bytes; it is modelled by 20 bytes derived from   *)
(* the length and a position-weighted sum of the bytes, so that the        *)
(* digests of the byte strings met in the model differ when the strings    *)
(* differ in length or content.                                            *)
(***************************************************************************)
Weighted(b, i) == IF i > Len(b) THEN 0 ELSE (b[i] + 1) * (((i * i) % 251) + i)

RECURSIVE WeightedSum(_, _, _)
WeightedSum(b, lo, hi) ==
    \* sum over lo..hi of the weighted bytes, by halving down to blocks of four
    IF lo > hi THEN 0
    ELSE IF hi - lo < 4
    THEN Weighted(b, lo) + Weighted(b, lo + 1) + Weighted(b, lo + 2) + Weighted(b, lo + 3)
    ELSE LET mid == lo + 4 * ((hi - lo + 4) \div 8)
         IN  WeightedSum(b, lo, mid - 1) + WeightedSum(b, mid, hi)

SHA1(b) ==
    LET sum == WeightedSum(b, 1, Len(b))
    IN  [k \in 1..shaSize |->
            (Len(b) * k + (sum % 256) * (2 * k + 1) + ((sum \div 256) % 256) * (k + 3)
                + ((sum \div 65536) % 256) * (k * k + 1)) % 256]

(***************************************************************************)
(* Input streams and the bounded copy                                      *)
(*                                                                         *)
(* An Input is [Path, data, SizeHint, ModTime, openErr, readErr, stalls]:  *)
(* Open fails when openErr; otherwise the stream first answers `stalls`    *)
(* reads with (0, nil), then yields `data`, then ends with io.EOF or, when *)
(* readErr, with an error.                                                 *)
(***************************************************************************)
packCopyBufferSize == 65536
maxEmptyReads == 100

OpenStream(in) ==
    [data |-> in.data, pos |-> 0, stalls |-> in.stalls, at |-> 0, fail |-> in.readErr]

ReadStream(st, want) ==
    \* one src.Read(buf[:want]) with want >= 1: [n, err, st]
    \* the empty reads come once the stream has yielded its first `at` bytes
    IF st.stalls > 0 /\ st.pos >= st.at
    THEN [n |-> 0, err |-> "", st |-> [st EXCEPT !.stalls = @ - 1]]
    ELSE IF st.pos >= Len(st.data)
    THEN [n |-> 0, err |-> IF st.fail THEN "ErrRead" ELSE "EOF", st |-> st]
    ELSE LET n == IF want < Len(st.data) - st.pos THEN want ELSE Len(st.data) - st.pos
         IN  [n |-> n, err |-> "", st |-> [st EXCEPT !.pos = @ + n]]

ProbeExtraByte(st, written) ==
    \* after exactly `limit` bytes: one more byte means the source is too long
    LET r == ReadStream(st, 1)
    IN  [written |-> written, st |-> r.st,
         err |-> IF r.n > 0 THEN "ErrSizeOverflow"
                 ELSE IF r.err # "" /\ r.err # "EOF" THEN r.err
                 ELSE ""]

RECURSIVE CopyLoop(_, _, _, _)
CopyLoop(st, limit, written, emptyReads) ==
    \* the loop of copyPayloadBounded: [written, err, st]; the bytes written to dst
    \* are the first `written` bytes of the stream's data, st is the stream left
    IF written < limit
    THEN LET remaining == limit - written
             chunkSize == IF packCopyBufferSize > remaining THEN remaining
                          ELSE packCopyBufferSize
             r == ReadStream(st, chunkSize)
         IN  IF r.n = 0 /\ r.err = ""
             THEN \* the stream answers its whole run of st.stalls empty reads at
                  \* this position: the iterations over the run are taken at once
                  IF emptyReads + st.stalls > maxEmptyReads
                  THEN [written |-> written, err |-> "ErrNoProgress",
                        st |-> [st EXCEPT !.stalls = @ - (maxEmptyReads + 1 - emptyReads)]]
                  ELSE CopyLoop([st EXCEPT !.stalls = 0], limit, written,
                                emptyReads + st.stalls)
             ELSE IF r.err = "EOF"
             THEN IF written + r.n = limit
                  THEN ProbeExtraByte(r.st, written + r.n)
                  ELSE [written |-> written + r.n, st |-> r.st, err |-> ""]
             ELSE IF r.err # ""
             THEN [written |-> written + r.n, st |-> r.st, err |-> r.err]
             ELSE CopyLoop(r.st, limit, written + r.n, 0)
    ELSE ProbeExtraByte(st, written)

copyPayloadBounded(st, limit) ==
    IF limit < 0 THEN [written |-> 0, st |-> st, err |-> "ErrSizeOverflow"]
    ELSE CopyLoop(st, limit, 0, 0)

checkedDataSize(size, currentOffset) ==
    \* "" or ErrSizeOverflow: the size must fit uint32 and the running offset
    IF size < 0 \/ size > MaxUint32 THEN "ErrSizeOverflow"
    ELSE IF size > MaxUint32 - currentOffset THEN "ErrSizeOverflow"
    ELSE ""

timeToUint32(t) ==
    IF t < 0 THEN 0 ELSE IF t > MaxUint32 THEN MaxUint32 ELSE t

(***************************************************************************)
(* Payload writers.  Each returns [err, bytes, rec]: the bytes appended to *)
(* the destination and the writtenEntry record.                            *)
(***************************************************************************)
NoRecord == [dataSize |-> 0, originalSize |-> 0, mime |-> MimeNil, timestamp |-> 0,
             compressionCandidate |-> FALSE]

PayloadError(err) == [err |-> err, bytes |-> <<>>, rec |-> NoRecord]

writeUncompressedPayload(in, currentOffset) ==
    LET maxEntrySize == MaxUint32 - currentOffset
        Copied(c) ==
            IF c.err # "" THEN PayloadError(c.err)
            ELSE IF checkedDataSize(c.written, currentOffset) # ""
            THEN PayloadError("ErrSizeOverflow")
            ELSE [err |-> "", bytes |-> SubSeq(in.data, 1, c.written),
                  rec |-> [NoRecord EXCEPT !.dataSize = c.written,
                                           !.timestamp = timeToUint32(in.ModTime)]]
    IN  Copied(copyPayloadBounded(OpenStream(in), maxEntrySize))

shouldSkipCompressBySizeHint(opts, sizeHint) ==
    IF sizeHint <= 0 THEN FALSE
    ELSE sizeHint < opts.MinCompressSize \/ sizeHint > opts.MaxCompressSize

shouldUseCompressionForInput(opts, matcher, in) ==
    IF matcher = <<>> THEN FALSE
    ELSE IF shouldSkipCompressBySizeHint(opts, in.SizeHint) THEN FALSE
    ELSE IF in.SizeHint > MaxUint32 THEN FALSE
    ELSE IF in.SizeHint > 0 THEN shouldCompress(opts, matcher, in.Path, in.SizeHint)
    ELSE Match(matcher, in.Path)

inMemoryCompressPathAlways(opts, sizeHint, maxEntrySize) ==
    \* variant of shouldUseInMemoryCompressPath without its three refusals
    TRUE

shouldUseInMemoryCompressPath(opts, sizeHint, maxEntrySize) ==
    ~(sizeHint <= 0 \/ sizeHint > maxEntrySize \/ sizeHint > opts.MaxCompressSize)

readPayloadBounded(in, limit) ==
    \* reads the whole stream into memory, up to `limit` bytes: [err, raw]
    LET Copied(c) == IF c.err # "" THEN [err |-> c.err, raw |-> <<>>]
                     ELSE [err |-> "", raw |-> SubSeq(in.data, 1, c.written)]
    IN  Copied(copyPayloadBounded(OpenStream(in), limit))

writeCompressedCandidatePayloadInMemory(in, opts, currentOffset, maxEntrySize) ==
    LET Encoded(raw, originalSize, rawRecord, compressed) ==
            IF Len(compressed) >= Len(raw)
            THEN [err |-> "", bytes |-> raw, rec |-> rawRecord]
            ELSE IF checkedDataSize(Len(compressed), currentOffset) # ""
            THEN PayloadError("ErrSizeOverflow")
            ELSE [err |-> "", bytes |-> compressed,
                  rec |-> [rawRecord EXCEPT !.dataSize = Len(compressed),
                                            !.originalSize = originalSize,
                                            !.mime = MimeCompress]]
        Sized(raw, originalSize, rawRecord) ==
            IF checkedDataSize(originalSize, currentOffset) # ""
            THEN PayloadError("ErrSizeOverflow")
            ELSE IF ~shouldCompressBySize(opts, originalSize)
            THEN [err |-> "", bytes |-> raw, rec |-> rawRecord]
            ELSE Encoded(raw, originalSize, rawRecord, compressLZSS(raw))
        Loaded(r) ==
            IF r.err # "" THEN PayloadError(r.err)
            ELSE Sized(r.raw, Len(r.raw),
                       [NoRecord EXCEPT !.dataSize = Len(r.raw),
                                        !.timestamp = timeToUint32(in.ModTime)])
    IN  Loaded(readPayloadBounded(in, maxEntrySize))

writeCompressedCandidatePayload(in, opts, currentOffset) ==
    LET maxEntrySize == MaxUint32 - currentOffset
    IN  IF ~shouldUseInMemoryCompressPath(opts, in.SizeHint, maxEntrySize)
        THEN writeUncompressedPayload(in, currentOffset)
        ELSE writeCompressedCandidatePayloadInMemory(in, opts, currentOffset, maxEntrySize)

writeInputPayload(in, opts, useCompression, currentOffset) ==
    IF ~useCompression THEN writeUncompressedPayload(in, currentOffset)
    ELSE writeCompressedCandidatePayload(in, opts, currentOffset)

writeRewriteInputPayload(in, opts, matcher, currentOffset) ==
    LET Written(w, useCompression) ==
            IF w.err # "" THEN w
            ELSE [w EXCEPT !.rec.compressionCandidate = useCompression]
        Decided(useCompression) ==
            Written(writeInputPayload(in, opts, useCompression, currentOffset),
                    useCompression)
    IN  IF in.openErr THEN PayloadError("ErrOpenInput")
        ELSE Decided(shouldUseCompressionForInput(opts, matcher, in))

writeSourcePayloadAsNew(src, entry, currentOffset) ==
    \* variant of writeSourcePackedPayload that copies the bytes but records the entry
    \* as a new raw one
    LET size == entry.DataSize
    IN  IF checkedDataSize(size, currentOffset) # "" THEN PayloadError("ErrSizeOverflow")
        ELSE [err |-> "", bytes |-> Slice(src, entry.Offset, entry.Offset + size),
              rec |-> [NoRecord EXCEPT !.dataSize = size]]

writeSourcePackedPayload(src, entry, currentOffset) ==
    \* editor passthrough: the packed bytes [Offset, Offset+DataSize) of the source
    LET size == entry.DataSize
        avail == IF Len(src) - entry.Offset < 0 THEN 0
                 ELSE IF Len(src) - entry.Offset < size THEN Len(src) - entry.Offset
                 ELSE size
    IN  IF checkedDataSize(size, currentOffset) # "" THEN PayloadError("ErrSizeOverflow")
        ELSE IF avail # size THEN PayloadError("ErrShortRead")
        ELSE [err |-> "", bytes |-> Slice(src, entry.Offset, entry.Offset + size),
              rec |-> [NoRecord EXCEPT !.dataSize = size,
                                       !.originalSize = entry.OriginalSize,
                                       !.mime = entry.MimeType,
                                       !.timestamp = entry.TimeStamp]]

(***************************************************************************)
(* The rewrite core (rewriteArchiveDetailed), shared by Pack and Commit    *)
(*                                                                         *)
(* A plan item is [path, isSource, input, source].  cancelAt is the index  *)
(* of the item at whose turn ctx.Err() is first non-nil (0: never).        *)
(***************************************************************************)
PrefixKey == <<112, 114, 101, 102, 105, 120>>

NoInput == [Path |-> <<>>, data |-> <<>>, SizeHint |-> 0, ModTime |-> 0,
            openErr |-> FALSE, readErr |-> FALSE, stalls |-> 0]

NoEntry == [Path |-> <<>>, Offset |-> 0, DataSize |-> 0, OriginalSize |-> 0,
            TimeStamp |-> 0, MimeType |-> MimeNil]

InputItem(in) == [path |-> in.Path, isSource |-> FALSE, input |-> in, source |-> NoEntry]

SourceItem(path, e) ==
    [path |-> path, isSource |-> TRUE, input |-> NoInput, source |-> [e EXCEPT !.Path = path]]

RECURSIVE WritePayloads(_, _, _, _, _, _, _)
WritePayloads(src, plan, opts, matcher, cancelAt, i, acc) ==
    \* the payload loop; acc is [err, payload, written, entries, currentOffset]
    IF i > Len(plan) THEN acc
    ELSE IF cancelAt # 0 /\ i >= cancelAt THEN [acc EXCEPT !.err = "ErrCanceled"]
    ELSE LET item == plan[i]
             Written(w) ==
                 IF w.err # "" THEN [acc EXCEPT !.err = w.err]
                 ELSE WritePayloads(src, plan, opts, matcher, cancelAt, i + 1,
                         [err |-> "",
                          payload |-> acc.payload \o w.bytes,
                          written |-> Append(acc.written, w.rec),
                          entries |-> Append(acc.entries,
                                        [Path |-> item.path, Offset |-> acc.currentOffset,
                                         DataSize |-> w.rec.dataSize,
                                         OriginalSize |-> w.rec.originalSize,
                                         TimeStamp |-> w.rec.timestamp,
                                         MimeType |-> w.rec.mime]),
                          currentOffset |->
                              (acc.currentOffset + w.rec.dataSize) % (MaxUint32 + 1)])
         IN  Written(IF item.isSource
                     THEN IF src = NoFile THEN PayloadError("ErrNilReader")
                          ELSE writeSourcePackedPayload(src, item.source, acc.currentOffset)
                     ELSE writeRewriteInputPayload(item.input, opts, matcher,
                                                   acc.currentOffset))

EntryFields(rec) ==
    \* mime | original_size | 0 | timestamp | data_size, little-endian
    PutUint32(rec.mime) \o PutUint32(rec.originalSize) \o PutUint32(0)
        \o PutUint32(rec.timestamp) \o PutUint32(rec.dataSize)

WrittenHeaders(headers) ==
    [i \in 1..Len(headers) |->
        [Key |-> headers[i].Key,
         Value |-> IF EqualFold(TrimSpace(headers[i].Key), PrefixKey)
                   THEN NormalizePrefixHeader(headers[i].Value)
                   ELSE headers[i].Value]]

rewriteArchiveDetailed(src, plan, optsIn, cancelAt) ==
    \* [err, out, entries, headers, dataStart, written]: out is what the destination
    \* holds when the call returns (buffered payload is lost on an error)
    LET header == <<0>> \o PutUint32(MimeHeader) \o Zeros(headerSize - 5)
        placeholders == Concat([i \in 1..Len(plan) |-> plan[i].path \o <<0>> \o Zeros(20)])
                        \o <<0>> \o Zeros(20)
        Index(written) ==
            Concat([i \in 1..Len(plan) |-> plan[i].path \o <<0>> \o EntryFields(written[i])])
                \o <<0>> \o Zeros(20)
        Failed(err, kv, dataStart) ==
            [err |-> err, out |-> header \o kv \o placeholders, entries |-> <<>>,
             headers |-> <<>>, dataStart |-> dataStart, written |-> <<>>]
        Finished(p, writtenHeaders, kv, dataStart) ==
            IF p.err # "" THEN Failed(p.err, kv, dataStart)
            ELSE [err |-> "", out |-> header \o kv \o Index(p.written) \o p.payload,
                  entries |-> p.entries, headers |-> writtenHeaders,
                  dataStart |-> dataStart, written |-> p.written]
        Payloads(opts, writtenHeaders, kv, dataStart) ==
            IF dataStart > maxPBOData THEN Failed("ErrSizeOverflow", kv, dataStart)
            ELSE Finished(WritePayloads(src, plan, opts, newCompressMatcher(opts.Compress),
                                        cancelAt, 1,
                              [err |-> "", payload |-> <<>>, written |-> <<>>,
                               entries |-> <<>>,
                               currentOffset |-> dataStart % (MaxUint32 + 1)]),
                          writtenHeaders, kv, dataStart)
        HeaderPairs(opts, writtenHeaders, kv) ==
            Payloads(opts, writtenHeaders, kv, Len(header) + Len(kv) + Len(placeholders))
        Headers(opts, writtenHeaders) ==
            HeaderPairs(opts, writtenHeaders,
                Concat([i \in 1..Len(writtenHeaders) |->
                           writtenHeaders[i].Key \o <<0>> \o writtenHeaders[i].Value \o <<0>>])
                    \o <<0>>)
        Defaults(opts) == Headers(opts, WrittenHeaders(opts.Headers))
    IN  Defaults(applyDefaults(optsIn))

(***************************************************************************)
(* Pack: plan preparation                                                  *)
(***************************************************************************)
RECURSIVE InsertByPath(_, _)
InsertByPath(x, sorted) ==
    IF sorted = <<>> THEN <<x>>
    ELSE IF StrLess(x.Path, Head(sorted).Path) THEN <<x>> \o sorted
    ELSE <<Head(sorted)>> \o InsertByPath(x, Tail(sorted))

RECURSIVE SortByPath(_)
SortByPath(items) ==
    \* sort.Slice by Path; items with equal paths (which the duplicate check rejects
    \* next) keep their order
    IF items = <<>> THEN <<>>
    ELSE InsertByPath(items[Len(items)], SortByPath(SubSeq(items, 1, Len(items) - 1)))

validateUniqueEntryPaths(inputs) ==
    IF \E i, j \in 1..Len(inputs) : i < j /\ ToLower(inputs[i].Path) = ToLower(inputs[j].Path)
    THEN "ErrDuplicateEntryPath" ELSE ""

RECURSIVE SumHints(_)
SumHints(inputs) ==
    IF inputs = <<>> THEN 0
    ELSE (IF Head(inputs).SizeHint > 0 THEN Head(inputs).SizeHint ELSE 0) + SumHints(Tail(inputs))

NormalizedInputs(inputs) ==
    [i \in 1..Len(inputs) |->
        [inputs[i] EXCEPT !.Path = normalizeArchiveEntryPath(inputs[i].Path).path]]

preparePackRewritePlanUnsorted(inputs) ==
    \* variant of preparePackRewritePlan that keeps the order given
    LET normalized == NormalizedInputs(inputs)
    IN  IF \E i \in 1..Len(inputs) : normalizeArchiveEntryPath(inputs[i].Path).err # ""
        THEN [err |-> "ErrInvalidEntryPath", plan |-> <<>>]
        ELSE IF validateUniqueEntryPaths(normalized) # ""
        THEN [err |-> "ErrDuplicateEntryPath", plan |-> <<>>]
        ELSE [err |-> "", plan |-> [i \in 1..Len(normalized) |-> InputItem(normalized[i])]]

preparePackRewritePlan(inputs) ==
    \* [err, plan]
    LET sorted == SortByPath(NormalizedInputs(inputs))
    IN  IF \E i \in 1..Len(inputs) : normalizeArchiveEntryPath(inputs[i].Path).err # ""
        THEN [err |-> "ErrInvalidEntryPath", plan |-> <<>>]
        ELSE IF validateUniqueEntryPaths(sorted) # ""
        THEN [err |-> "ErrDuplicateEntryPath", plan |-> <<>>]
        ELSE IF SumHints(sorted) > maxPBOData
        THEN [err |-> "ErrSizeOverflow", plan |-> <<>>]
        ELSE [err |-> "", plan |-> [i \in 1..Len(sorted) |-> InputItem(sorted[i])]]

NoResult == [err |-> "", out |-> <<>>, entries |-> <<>>, headers |-> <<>>,
             dataStart |-> 0, written |-> <<>>]

Pack(inputs, opts, cancelAt) ==
    \* the result of rewriteArchiveDetailed, or the error met before any write
    LET Prepared(prep) ==
            IF prep.err # "" THEN [NoResult EXCEPT !.err = prep.err]
            ELSE rewriteArchiveDetailed(NoFile, prep.plan, opts, cancelAt)
    IN  IF inputs = <<>> THEN [NoResult EXCEPT !.err = "ErrEmptyInputs"]
        ELSE Prepared(preparePackRewritePlan(inputs))

(***************************************************************************)
(* Reader: header section, entry table, offset resolution                  *)
(***************************************************************************)
readNullTerminated(b, off) ==
    \* [err, str, n]: the string up to the next NUL and the bytes consumed
    LET i == IndexByte(b, off, 0)
    IN  IF i < 0 THEN [err |-> "EOF", str |-> <<>>, n |-> 0]
        ELSE [err |-> "", str |-> Slice(b, off, i), n |-> i - off + 1]

RECURSIVE ParseHeaderPairs(_, _, _)
ParseHeaderPairs(b, off, acc) ==
    LET key == readNullTerminated(b, off)
        value == readNullTerminated(b, off + key.n)
    IN  IF key.err # "" THEN [err |-> "ErrReadHeader", headers |-> <<>>, off |-> 0]
        ELSE IF key.str = <<>> THEN [err |-> "", headers |-> acc, off |-> off + key.n]
        ELSE IF value.err # "" THEN [err |-> "ErrReadHeader", headers |-> <<>>, off |-> 0]
        ELSE ParseHeaderPairs(b, off + key.n + value.n,
                              Append(acc, [Key |-> key.str, Value |-> value.str]))

parseHeaderSection(b) ==
    \* [err, headers, off]: off is where the entry table starts
    IF Len(b) < headerSize THEN [err |-> "ErrInvalidHeader", headers |-> <<>>, off |-> 0]
    ELSE IF Uint32At(b, 1) # MimeHeader
    THEN [err |-> "ErrInvalidHeader", headers |-> <<>>, off |-> 0]
    ELSE ParseHeaderPairs(b, headerSize, <<>>)

RECURSIVE ParseEntryRecords(_, _, _)
ParseEntryRecords(b, off, acc) ==
    \* the loop of parseEntriesBuffered: [err, entries, off]
    LET name == readNullTerminated(b, off)
        fieldsAt == off + name.n
        mimeType == Uint32At(b, fieldsAt)
        originalSize == Uint32At(b, fieldsAt + 4)
        offset == Uint32At(b, fieldsAt + 8)
        timestamp == Uint32At(b, fieldsAt + 12)
        dataSize == Uint32At(b, fieldsAt + 16)
    IN  IF name.err # "" THEN [err |-> "ErrReadEntry", entries |-> <<>>, off |-> 0]
        ELSE IF fieldsAt + 20 > Len(b)
        THEN [err |-> "ErrReadEntry", entries |-> <<>>, off |-> 0]
        ELSE IF name.str = <<>> /\ mimeType = 0 /\ originalSize = 0 /\ offset = 0
                /\ timestamp = 0 /\ dataSize = 0
        THEN [err |-> "", entries |-> acc, off |-> fieldsAt + 20]
        ELSE IF Len(name.str) > maxNameLen
        THEN [err |-> "ErrFileNameTooLong", entries |-> <<>>, off |-> 0]
        ELSE ParseEntryRecords(b, fieldsAt + 20,
                 Append(acc, [Path |-> name.str, Offset |-> offset, DataSize |-> dataSize,
                              OriginalSize |-> originalSize, TimeStamp |-> timestamp,
                              MimeType |-> mimeType]))

parseEntriesBuffered(b, tableOffset) ==
    IF tableOffset >= Len(b) THEN [err |-> "ErrReadEntry", entries |-> <<>>, off |-> 0]
    ELSE ParseEntryRecords(b, tableOffset, <<>>)

RECURSIVE SequentialLoop(_, _, _)
SequentialLoop(entries, i, current) ==
    \* [err, entries]: entry i gets `current`; the sum must stay within uint32
    IF i > Len(entries) THEN [err |-> "", entries |-> entries]
    ELSE IF entries[i].DataSize > MaxUint32 - current
    THEN [err |-> "ErrSizeOverflow", entries |-> [entries EXCEPT ![i].Offset = current]]
    ELSE SequentialLoop([entries EXCEPT ![i].Offset = current], i + 1,
                        current + entries[i].DataSize)

assignSequentialOffsets(entries, dataStart) ==
    IF dataStart < 0 \/ dataStart > MaxUint32
    THEN [err |-> "ErrSizeOverflow", entries |-> entries]
    ELSE SequentialLoop(entries, 1, dataStart)

RECURSIVE StoredLoop(_, _, _, _, _, _)
StoredLoop(entries, dataStart, totalSize, adjust, i, prev) ==
    \* the loop of assignStoredOffsets; it writes entries[i].Offset as it goes, and
    \* what it has written stays written when a later entry fails
    IF i > Len(entries) THEN [err |-> "", entries |-> entries]
    ELSE LET resolved == entries[i].Offset + adjust
             end == resolved + entries[i].DataSize
         IN  IF resolved < dataStart THEN [err |-> "before data start", entries |-> entries]
             ELSE IF resolved < 0 \/ resolved > MaxUint32
             THEN [err |-> "out of range", entries |-> entries]
             ELSE IF resolved < prev THEN [err |-> "not monotonic", entries |-> entries]
             ELSE IF end < resolved \/ end > totalSize
             THEN [err |-> "out of file bounds", entries |-> entries]
             ELSE StoredLoop([entries EXCEPT ![i].Offset = resolved], dataStart, totalSize,
                             adjust, i + 1, resolved)

assignStoredOffsets(entries, dataStart, totalSize, absolute) ==
    StoredLoop(entries, dataStart, totalSize, IF absolute THEN 0 ELSE dataStart, 1, -1)

tryAssignStoredOffsets(entries, dataStart, totalSize) ==
    \* [usedStored, err, entries]
    LET first == entries[1].Offset
        tryRelativeFirst == first = 0 \/ first < dataStart
        a1 == assignStoredOffsets(entries, dataStart, totalSize, ~tryRelativeFirst)
        a2 == assignStoredOffsets(a1.entries, dataStart, totalSize, tryRelativeFirst)
    IN  IF entries = <<>> \/ \A i \in 1..Len(entries) : entries[i].Offset = 0
        THEN [usedStored |-> FALSE, err |-> "", entries |-> entries]
        ELSE IF a1.err = "" THEN [usedStored |-> TRUE, err |-> "", entries |-> a1.entries]
        ELSE IF a2.err = "" THEN [usedStored |-> TRUE, err |-> "", entries |-> a2.entries]
        ELSE [usedStored |-> FALSE, err |-> "stored offsets are malformed",
              entries |-> a2.entries]

validateResolvedOffsetsSkipped(entries, dataStart, totalSize) ==
    \* variant of validateResolvedOffsets that accepts every resolution
    ""

validateResolvedOffsets(entries, dataStart, totalSize) ==
    IF \E i \in 1..Len(entries) :
          \/ entries[i].Offset < dataStart
          \/ entries[i].Offset + entries[i].DataSize > totalSize
    THEN "ErrInvalidEntryOffset" ELSE ""

resolveEntryOffsets(entries, dataStart, totalSize, mode) ==
    \* [err, entries]
    LET Validated(r) ==
            IF r.err # "" THEN r
            ELSE [err |-> validateResolvedOffsets(r.entries, dataStart, totalSize),
                  entries |-> r.entries]
        Sequential(es) == Validated(assignSequentialOffsets(es, dataStart))
        Stored(t) ==
            IF mode = "stored_compat"
            THEN IF t.err # "" \/ ~t.usedStored THEN Sequential(t.entries)
                 ELSE Validated([err |-> "", entries |-> t.entries])
            ELSE IF t.err # "" THEN [err |-> "ErrInvalidEntryOffset", entries |-> t.entries]
                 ELSE IF ~t.usedStored THEN Sequential(t.entries)
                 ELSE Validated([err |-> "", entries |-> t.entries])
    IN  IF mode = "sequential" THEN Sequential(entries)
        ELSE IF mode \in {"stored_compat", "stored_strict"}
        THEN Stored(tryAssignStoredOffsets(entries, dataStart, totalSize))
        ELSE [err |-> "ErrInvalidEntryOffset", entries |-> entries]

(***************************************************************************)
(* Reader: junk filter, parse, entry streams                               *)
(***************************************************************************)
hasWindowsAbsDrivePrefix(path) ==
    /\ Len(path) >= 3
    /\ path[1] \in ((97..122) \cup (65..90))
    /\ path[2] = 58
    /\ path[3] = 47

normalizeExtractEntryPath(entryPath) ==
    \* [err, path]: rejects absolute paths, NUL bytes and ".." elements
    LET raw == TrimSpace(entryPath)
        slashed == ReplaceByte(raw, 92, 47)
        parts == SplitSlash(slashed)
        cleanParts == SelectSeq(parts, LAMBDA part : part # <<>> /\ part # <<46>>)
        bad == [err |-> "ErrInvalidExtractPath", path |-> <<>>]
    IN  IF raw = <<>> THEN bad
        ELSE IF \E i \in 1..Len(raw) : raw[i] = 0 THEN bad
        ELSE IF Head(raw) = 47 \/ Head(raw) = 92 THEN bad
        ELSE IF hasWindowsAbsDrivePrefix(slashed) THEN bad
        ELSE IF \E i \in 1..Len(parts) : parts[i] = <<46, 46>> THEN bad
        ELSE IF cleanParts = <<>> THEN bad
        ELSE [err |-> "", path |-> JoinSlash(cleanParts)]

filterOriginalSizeOrDataSize(entry) ==
    IF entry.OriginalSize = 0 THEN entry.DataSize ELSE entry.OriginalSize

filterEntriesBySize(entries, minOriginalSize, minDataSize) ==
    IF minOriginalSize = 0 /\ minDataSize = 0 THEN entries
    ELSE SelectSeq(entries,
                   LAMBDA entry : /\ ~(filterOriginalSizeOrDataSize(entry) < minOriginalSize)
                                  /\ ~(entry.DataSize < minDataSize))

filterJunkEntries(entries) ==
    SelectSeq(entries,
              LAMBDA e : /\ e.DataSize # 0
                         /\ ~(e.MimeType = MimeCompress /\ e.OriginalSize = 0)
                         /\ normalizeExtractEntryPath(e.Path).err = "")

DefaultReaderOptions == [OffsetMode |-> "sequential", EnableJunkFilter |-> FALSE]

NoReader == [err |-> "", headers |-> <<>>, entries |-> <<>>, size |-> 0, dataStart |-> 0,
             hasTrailer |-> FALSE, sha1Trailer |-> <<>>]

parseFilteringFirst(b, opts) ==
    \* variant of parse that drops the junk records before it resolves the offsets
    LET size == Len(b)
        hasTrailer == size >= 21 /\ b[size - 21 + 1] = 0
        Settled(r, headers, dataStart) ==
            IF r.err # "" THEN [NoReader EXCEPT !.err = r.err]
            ELSE [err |-> "", headers |-> headers, entries |-> r.entries,
                  size |-> size, dataStart |-> dataStart, hasTrailer |-> hasTrailer,
                  sha1Trailer |-> IF hasTrailer THEN Slice(b, size - 20, size) ELSE <<>>]
        Table(t, headers) ==
            IF t.err # "" THEN [NoReader EXCEPT !.err = t.err]
            ELSE Settled(resolveEntryOffsets(IF opts.EnableJunkFilter
                                             THEN filterJunkEntries(t.entries)
                                             ELSE t.entries,
                                             t.off, size, opts.OffsetMode),
                          headers, t.off)
        Header(h) ==
            IF h.err # "" THEN [NoReader EXCEPT !.err = h.err]
            ELSE Table(parseEntriesBuffered(b, h.off), h.headers)
    IN  Header(parseHeaderSection(b))

parse(b, opts) ==
    \* Reader.parse over the bytes b: the Reader, with err set when Open fails
    LET size == Len(b)
        hasTrailer == size >= 21 /\ b[size - 21 + 1] = 0
        Settled(r, headers, dataStart) ==
            IF r.err # "" THEN [NoReader EXCEPT !.err = r.err]
            ELSE [err |-> "", headers |-> headers,
                  entries |-> IF opts.EnableJunkFilter THEN filterJunkEntries(r.entries)
                              ELSE r.entries,
                  size |-> size, dataStart |-> dataStart, hasTrailer |-> hasTrailer,
                  sha1Trailer |-> IF hasTrailer THEN Slice(b, size - 20, size) ELSE <<>>]
        Table(t, headers) ==
            IF t.err # "" THEN [NoReader EXCEPT !.err = t.err]
            ELSE Settled(resolveEntryOffsets(t.entries, t.off, size, opts.OffsetMode),
                          headers, t.off)
        Header(h) ==
            IF h.err # "" THEN [NoReader EXCEPT !.err = h.err]
            ELSE Table(parseEntriesBuffered(b, h.off), h.headers)
    IN  Header(parseHeaderSection(b))

Open(b) == IF b = NoFile THEN [NoReader EXCEPT !.err = "ErrNotExist"]
           ELSE parse(b, DefaultReaderOptions)

IsCompressed(e) ==
    e.MimeType = MimeCompress \/ (e.OriginalSize # 0 /\ e.DataSize < e.OriginalSize)

findEntryByName(r, name) ==
    \* index of the first entry whose normalized path equals the normalized name, or 0
    LET hits == {i \in 1..Len(r.entries) :
                    NormalizePath(r.entries[i].Path) = NormalizePath(name)}
    IN  IF hits = {} THEN 0 ELSE MinOf(hits)

SectionBytes(b, off, n) ==
    \* what an io.SectionReader over [off, off+n) yields: it stops where the file ends
    LET to == IF off + n > Len(b) THEN Len(b) ELSE off + n
    IN  Slice(b, off, to)

openEntryByInfo(b, info) ==
    \* [err, data]: the bytes io.ReadAll gets from the entry stream
    LET packed == SectionBytes(b, info.Offset, info.DataSize)
    IN  IF ~IsCompressed(info) THEN [err |-> "", data |-> packed]
        ELSE DecompressToWriter(packed, info.OriginalSize)

ReadEntry(b, r, name) ==
    LET Found(i) == IF i = 0 THEN [err |-> "ErrEntryNotFound", data |-> <<>>]
                    ELSE openEntryByInfo(b, r.entries[i])
    IN  Found(findEntryByName(r, name))

(***************************************************************************)
(* SHA-1 trailer                                                           *)
(***************************************************************************)
writeSHA1TrailerTrustingTail(b) ==
    \* a writer that takes any 0x00 at size-21 for the start of a trailer
    IF Len(b) >= 21 /\ b[Len(b) - 21 + 1] = 0
    THEN Slice(b, 0, Len(b) - 21) \o <<0>> \o SHA1(Slice(b, 0, Len(b) - 21))
    ELSE b \o <<0>> \o SHA1(b)

writeSHA1TrailerAppending(b) ==
    \* a writer that never looks for an existing trailer
    b \o <<0>> \o SHA1(b)

writeSHA1Trailer(b) ==
    \* the file after the call: a verified trailer is rewritten in place, anything
    \* else is kept and 0x00 + SHA-1 of the whole file is appended
    LET size == Len(b)
        candidate == size - 21
        verified == /\ size >= 21
                    /\ b[candidate + 1] = 0
                    /\ SHA1(Slice(b, 0, candidate)) = Slice(b, candidate + 1, size)
    IN  IF verified THEN Slice(b, 0, candidate) \o <<0>> \o SHA1(Slice(b, 0, candidate))
        ELSE b \o <<0>> \o SHA1(b)

(***************************************************************************)
(* Signature hash set                                                      *)
(***************************************************************************)
SignVersionV2 == 2
SignVersionV3 == 3
GameTypeAny == <<>>
GameTypeArma == <<97, 114, 109, 97>>
GameTypeDayZ == <<100, 97, 121, 122>>

V2SignExcludedExt ==
    {<<112, 97, 97>>, <<106, 112, 103>>, <<112, 51, 100>>, <<116, 103, 97>>,
     <<114, 118, 109, 97, 116>>, <<108, 105, 112>>, <<111, 103, 103>>,
     <<119, 115, 115>>, <<112, 110, 103>>, <<114, 116, 109>>, <<112, 97, 99>>,
     <<102, 120, 121>>, <<119, 114, 112>>}

DayZV3SignAllowedExt ==
    {<<98, 105, 107, 98>>, <<99>>, <<101, 120, 116>>, <<104, 112, 112>>,
     <<99, 102, 103>>, <<104>>, <<105, 110, 99>>}

ArmaV3SignAllowedExt ==
    {<<115, 113, 102>>, <<105, 110, 99>>, <<98, 105, 107, 98>>, <<101, 120, 116>>,
     <<102, 115, 109>>, <<115, 113, 109>>, <<104, 112, 112>>, <<99, 102, 103>>,
     <<115, 113, 115>>, <<104>>, <<99, 112, 112>>}

normalizeGameType(gameType) == asciiLower(gameType)

validateSignHashArgs(version, gameType) ==
    IF version # SignVersionV2 /\ version # SignVersionV3 THEN "ErrUnsupportedSignVersion"
    ELSE IF version = SignVersionV3
            /\ normalizeGameType(gameType) \notin {GameTypeArma, GameTypeDayZ}
    THEN "ErrUnsupportedGameTypeV3"
    ELSE ""

LastIndexIn(s, set) ==
    \* greatest 0-based offset holding a byte of `set`, or -1
    LET hits == {i \in 0..(Len(s) - 1) : s[i + 1] \in set}
    IN  IF hits = {} THEN -1 ELSE CHOOSE x \in hits : \A y \in hits : y <= x

signFileExtLower(filename) ==
    LET sep == LastIndexIn(filename, {47, 92})
        dot == LastIndexIn(filename, {46})
    IN  IF dot <= sep \/ dot + 1 >= Len(filename) THEN <<>>
        ELSE asciiLower(Slice(filename, dot + 1, Len(filename)))

shouldHashFileForSign(version, gameType, filename) ==
    LET ext == signFileExtLower(filename)
    IN  IF version = SignVersionV2 THEN ext \notin V2SignExcludedExt
        ELSE IF normalizeGameType(gameType) = GameTypeDayZ THEN ext \in DayZV3SignAllowedExt
        ELSE ext \in ArmaV3SignAllowedExt

normalizeSignEntryName(path) ==
    [i \in 1..Len(path) |->
        IF path[i] = 47 THEN 92
        ELSE IF path[i] \in 65..90 THEN path[i] + 32
        ELSE path[i]]

RECURSIVE InsertString(_, _)
InsertString(x, sorted) ==
    IF sorted = <<>> THEN <<x>>
    ELSE IF StrLess(x, Head(sorted)) THEN <<x>> \o sorted
    ELSE <<Head(sorted)>> \o InsertString(x, Tail(sorted))

RECURSIVE SortStrings(_)
SortStrings(names) ==
    IF names = <<>> THEN <<>> ELSE InsertString(Head(names), SortStrings(Tail(names)))

RECURSIVE DedupConsecutive(_, _)
DedupConsecutive(names, prev) ==
    IF names = <<>> THEN <<>>
    ELSE IF Head(names) = prev THEN DedupConsecutive(Tail(names), prev)
    ELSE Head(names) \o DedupConsecutive(Tail(names), Head(names))

Hashable(entries) == SelectSeq(entries, LAMBDA e : e.Path # <<>> /\ e.DataSize # 0)

computeSignNameHash(entries) ==
    LET hashable == Hashable(entries)
        names == [i \in 1..Len(hashable) |-> normalizeSignEntryName(hashable[i].Path)]
    IN  SHA1(DedupConsecutive(SortStrings(names), <<>>))

computeSignFileHashSorted(b, entries, version, gameType) ==
    \* variant of computeSignFileHashFromReaderAt that takes the entries in path order
    LET nothing == <<110, 111, 116, 104, 105, 110, 103>>
        gnihton == <<103, 110, 105, 104, 116, 111, 110>>
        Picked(picked) ==
            IF \E i \in 1..Len(picked) : picked[i].Offset + picked[i].DataSize > Len(b)
            THEN [err |-> "ErrReadPacked", sum |-> <<>>]
            ELSE [err |-> "",
                  sum |-> SHA1(IF picked = <<>>
                               THEN IF version = SignVersionV2 THEN nothing ELSE gnihton
                               ELSE Concat([i \in 1..Len(picked) |->
                                               SectionBytes(b, picked[i].Offset,
                                                            picked[i].DataSize)]))]
    IN  Picked(SortByPath(SelectSeq(Hashable(entries),
                                    LAMBDA e : shouldHashFileForSign(version, gameType,
                                                                     e.Path))))

computeSignFileHashFromReaderAt(b, entries, version, gameType) ==
    \* [err, sum]: SHA-1 over the packed bytes of the qualifying entries, in the
    \* order of `entries`
    LET nothing == <<110, 111, 116, 104, 105, 110, 103>>
        gnihton == <<103, 110, 105, 104, 116, 111, 110>>
        Picked(picked) ==
            IF \E i \in 1..Len(picked) : picked[i].Offset + picked[i].DataSize > Len(b)
            THEN [err |-> "ErrReadPacked", sum |-> <<>>]
            ELSE [err |-> "",
                  sum |-> SHA1(IF picked = <<>>
                               THEN IF version = SignVersionV2 THEN nothing ELSE gnihton
                               ELSE Concat([i \in 1..Len(picked) |->
                                               SectionBytes(b, picked[i].Offset,
                                                            picked[i].DataSize)]))]
    IN  Picked(SelectSeq(Hashable(entries),
                         LAMBDA e : shouldHashFileForSign(version, gameType, e.Path)))

pboPrefixFromHeaders(headers) ==
    LET hits == {i \in 1..Len(headers) : EqualFold(headers[i].Key, PrefixKey)}
    IN  IF hits = {} THEN <<>> ELSE headers[MinOf(hits)].Value

SignPrefix(prefix) ==
    IF prefix = <<>> THEN <<>>
    ELSE IF HasSuffix(prefix, <<92>>) THEN prefix
    ELSE prefix \o <<92>>

computeSignHash1(b, size, hasTrailer) ==
    SHA1(Slice(b, 0, IF hasTrailer /\ size >= 21 THEN size - 21 ELSE size))

NoHashSet == [err |-> "", Hash1 |-> <<>>, Hash2 |-> <<>>, Hash3 |-> <<>>]

computeHashSetFromPackedParts(b, size, hasTrailer, headers, entries, version, gameType) ==
    LET Hashed(prefix, hash1, nameHash, fileHash) ==
            IF fileHash.err # "" THEN [NoHashSet EXCEPT !.err = fileHash.err]
            ELSE [err |-> "", Hash1 |-> hash1,
                  Hash2 |-> SHA1(hash1 \o nameHash \o prefix),
                  Hash3 |-> SHA1(fileHash.sum \o nameHash \o prefix)]
    IN  Hashed(SignPrefix(pboPrefixFromHeaders(headers)),
               computeSignHash1(b, size, hasTrailer),
               computeSignNameHash(entries),
               computeSignFileHashFromReaderAt(b, entries, version, gameType))

ComputeHashSet(b, version, gameType) ==
    LET Opened(r) ==
            IF r.err # "" THEN [NoHashSet EXCEPT !.err = r.err]
            ELSE computeHashSetFromPackedParts(b, r.size, r.hasTrailer, r.headers, r.entries,
                                               version, gameType)
        Checked(argErr) ==
            IF argErr # "" THEN [NoHashSet EXCEPT !.err = argErr] ELSE Opened(Open(b))
    IN  Checked(validateSignHashArgs(version, gameType))

PackAndHash(inputs, opts, cancelAt, version, gameType) ==
    \* [res, hs]: the hash set is computed over the written bytes with hasTrailer = false
    LET Packed(res) ==
            IF res.err # "" THEN [res |-> res, hs |-> NoHashSet]
            ELSE [res |-> res,
                  hs |-> computeHashSetFromPackedParts(res.out, Len(res.out), FALSE,
                                                       res.headers, res.entries,
                                                       version, gameType)]
        Checked(argErr) ==
            IF argErr # "" THEN [res |-> [NoResult EXCEPT !.err = argErr], hs |-> NoHashSet]
            ELSE Packed(Pack(inputs, opts, cancelAt))
    IN  Checked(validateSignHashArgs(version, gameType))

(***************************************************************************)
(* Editor: staged operations, edit plan, backup slots, commit              *)
(*                                                                         *)
(* A staged operation is [kind, inputs, paths].  The edit state (the Go    *)
(* map keyed by editorPathKey) is a sequence of plan items with pairwise   *)
(* different keys; its order is immaterial, the plan is sorted at the end. *)
(***************************************************************************)
normalizeEditorInputs(inputs) ==
    \* [err, inputs]
    IF \E i \in 1..Len(inputs) : normalizeArchiveEntryPath(inputs[i].Path).err # ""
    THEN [err |-> "ErrInvalidEntryPath", inputs |-> <<>>]
    ELSE [err |-> "", inputs |-> NormalizedInputs(inputs)]

normalizeEditorPaths(paths) ==
    \* [err, paths]
    IF \E i \in 1..Len(paths) : normalizeArchiveEntryPath(paths[i]).err # ""
    THEN [err |-> "ErrInvalidEntryPath", paths |-> <<>>]
    ELSE [err |-> "", paths |-> [i \in 1..Len(paths) |-> normalizeArchiveEntryPath(paths[i]).path]]

editorPathKey(path) == ToLower(path)

HasKey(state, key) == \E i \in 1..Len(state) : editorPathKey(state[i].path) = key

DropKey(state, key) == SelectSeq(state, LAMBDA item : editorPathKey(item.path) # key)

RECURSIVE applyEditAddOverwriting(_, _)
applyEditAddOverwriting(state, inputs) ==
    \* variant of applyEditAdd that overwrites an existing path instead of failing
    IF inputs = <<>> THEN [err |-> "", state |-> state]
    ELSE applyEditAddOverwriting(
             Append(DropKey(state, editorPathKey(Head(inputs).Path)), InputItem(Head(inputs))),
             Tail(inputs))

RECURSIVE applyEditAdd(_, _)
applyEditAdd(state, inputs) ==
    \* [err, state]
    IF inputs = <<>> THEN [err |-> "", state |-> state]
    ELSE IF HasKey(state, editorPathKey(Head(inputs).Path))
    THEN [err |-> "ErrDuplicateEntryPath", state |-> state]
    ELSE applyEditAdd(Append(state, InputItem(Head(inputs))), Tail(inputs))

RECURSIVE applyEditReplace(_, _)
applyEditReplace(state, inputs) ==
    \* [err, state]
    IF inputs = <<>> THEN [err |-> "", state |-> state]
    ELSE IF ~HasKey(state, editorPathKey(Head(inputs).Path))
    THEN [err |-> "ErrEntryNotFound", state |-> state]
    ELSE applyEditReplace(
             Append(DropKey(state, editorPathKey(Head(inputs).Path)), InputItem(Head(inputs))),
             Tail(inputs))

RECURSIVE applyEditDelete(_, _)
applyEditDelete(state, paths) ==
    IF paths = <<>> THEN state
    ELSE applyEditDelete(DropKey(state, editorPathKey(Head(paths))), Tail(paths))

hasEditorDirPrefixLoose(path, prefix) ==
    \* variant of hasEditorDirPrefix that matches any path beginning with the prefix
    HasPrefix(editorPathKey(path), editorPathKey(prefix))

hasEditorDirPrefix(path, prefix) ==
    LET pathKey == editorPathKey(path)
        prefixKey == editorPathKey(prefix)
    IN  pathKey = prefixKey \/ HasPrefix(pathKey, prefixKey \o <<92>>)

RECURSIVE applyEditDeleteDir(_, _)
applyEditDeleteDir(state, prefixes) ==
    IF prefixes = <<>> THEN state
    ELSE applyEditDeleteDir(
             SelectSeq(state, LAMBDA item : ~hasEditorDirPrefix(item.path, Head(prefixes))),
             Tail(prefixes))

RECURSIVE SourceState(_, _)
SourceState(sourceEntries, state) ==
    \* the first loop of buildEditPlan: [err, state]
    IF sourceEntries = <<>> THEN [err |-> "", state |-> state]
    ELSE LET Normalized(n) ==
                 IF n.err # "" THEN [err |-> "ErrInvalidEntryPath", state |-> state]
                 ELSE IF HasKey(state, editorPathKey(n.path))
                 THEN [err |-> "ErrDuplicateEntryPath", state |-> state]
                 ELSE SourceState(Tail(sourceEntries),
                                  Append(state, SourceItem(n.path, Head(sourceEntries))))
         IN  Normalized(normalizeArchiveEntryPath(Head(sourceEntries).Path))

RECURSIVE ApplyOps(_, _)
ApplyOps(state, ops) ==
    \* the second loop of buildEditPlan: [err, state]
    IF ops = <<>> THEN [err |-> "", state |-> state]
    ELSE LET op == Head(ops)
             Applied(r) == IF r.err # "" THEN r ELSE ApplyOps(r.state, Tail(ops))
         IN  Applied(IF op.kind = "add" THEN applyEditAdd(state, op.inputs)
                     ELSE IF op.kind = "replace" THEN applyEditReplace(state, op.inputs)
                     ELSE IF op.kind = "delete"
                     THEN [err |-> "", state |-> applyEditDelete(state, op.paths)]
                     ELSE [err |-> "", state |-> applyEditDeleteDir(state, op.paths)])

RECURSIVE SortPlan(_)
SortPlan(items) ==
    \* sort.Slice by path; the paths of a state differ pairwise
    IF items = <<>> THEN <<>>
    ELSE LET least == CHOOSE i \in 1..Len(items) :
                          \A j \in 1..Len(items) : ~StrLess(items[j].path, items[i].path)
         IN  <<items[least]>>
                 \o SortPlan(SubSeq(items, 1, least - 1) \o SubSeq(items, least + 1, Len(items)))

buildEditPlan(sourceEntries, ops) ==
    \* [err, plan]
    LET Applied(applied) ==
            IF applied.err # "" THEN [err |-> applied.err, plan |-> <<>>]
            ELSE [err |-> "", plan |-> SortPlan(applied.state)]
        Loaded(src) ==
            IF src.err # "" THEN [err |-> src.err, plan |-> <<>>]
            ELSE Applied(ApplyOps(src.state, ops))
    IN  Loaded(SourceState(sourceEntries, <<>>))

removeIfExists(slots, i) == [slots EXCEPT ![i] = NoFile]

renameIfExists(slots, from, to) ==
    IF slots[from] = NoFile THEN slots
    ELSE [slots EXCEPT ![to] = slots[from], ![from] = NoFile]

RECURSIVE RotateSlots(_, _)
RotateSlots(slots, i) ==
    \* .bak.i -> .bak.(i+1) for i down to 1; slot j+1 holds .bak.j, slot 1 holds .bak
    IF i < 1 THEN slots
    ELSE RotateSlots(renameIfExists(slots, i + 1, i + 2), i - 1)

prepareBackupSlotRemoveOnly(slots, keepIn) ==
    \* variant of prepareBackupSlot that never rotates
    removeIfExists(slots, 1)

prepareBackupSlot(slots, keepIn) ==
    LET keep == IF keepIn < 0 THEN 0 ELSE keepIn
    IN  IF keep <= 1 THEN removeIfExists(slots, 1)
        ELSE renameIfExists(RotateSlots(removeIfExists(slots, keep), keep - 2), 1, 2)

rollbackKeepingPartial(path, backup) ==
    \* variant of rollbackFromBackup that leaves both files as they are
    [path |-> path, backup |-> backup]

rollbackFromBackup(path, backup) ==
    \* os.Remove(path), then rename backup -> path: the contents of [path, backup]
    [path |-> backup, backup |-> NoFile]

commitFromBackup(backup, ops, packOptions, cancelAt) ==
    \* [err, path, res]: path is what the archive path holds when the call returns
    \* (NoFile while the destination was never created)
    LET Rewritten(res) ==
            IF res.err # "" THEN [err |-> res.err, path |-> res.out, res |-> res]
            ELSE [err |-> "", path |-> writeSHA1Trailer(res.out), res |-> res]
        Planned(built, packOpts) ==
            IF built.err # "" THEN [err |-> built.err, path |-> NoFile, res |-> NoResult]
            ELSE Rewritten(rewriteArchiveDetailed(backup, built.plan, packOpts, cancelAt))
        Opened(srcReader) ==
            IF srcReader.err # ""
            THEN [err |-> srcReader.err, path |-> NoFile, res |-> NoResult]
            ELSE Planned(buildEditPlan(srcReader.entries, ops),
                         IF packOptions.Headers = <<>>
                         THEN [packOptions EXCEPT !.Headers = srcReader.headers]
                         ELSE packOptions)
    IN  Opened(parse(backup, DefaultReaderOptions))

(***************************************************************************)
(* Pack / Open / ReadEntry / hash set: the calls a client makes            *)
(*                                                                         *)
(* call = [inputs, opts]: the arguments every call of the run is made with *)
(* file = the bytes at the output path (NoFile: nothing there)             *)
(* ret  = what the last call returned, tagged with the operation           *)
(* hist = what the calls before it returned                                *)
(***************************************************************************)
NewInput(path, data, sizeHint) ==
    [Path |-> path, data |-> data, SizeHint |-> sizeHint, ModTime |-> 7,
     openErr |-> FALSE, readErr |-> FALSE, stalls |-> 0]

PackInputPool ==
    << NewInput(<<97>>, Repeat(120, 6), 6),
       NewInput(<<66>>, <<120, 121>>, 2),
       NewInput(<<46, 47, 32, 97>>, <<122>>, 0),
       NewInput(<<100, 47, 97, 46, 99>>, Repeat(113, 5), 5),
       NewInput(<<65>>, <<>>, 0),
       NewInput(<<98>>, Repeat(119, 4), 100),
       NewInput(<<97>>, Repeat(120, 70), 0),
       [NewInput(<<101, 46, 112, 97, 97>>, <<1, 2, 3>>, 3) EXCEPT !.readErr = TRUE] >>

NewOptions(headers, rules, min, max) ==
    [Headers |-> headers, Compress |-> rules, MinCompressSize |-> min,
     MaxCompressSize |-> max]

PackOptionsPool ==
    { NewOptions(<<>>, <<>>, 0, 0),
      NewOptions(<<[Key |-> PrefixKey, Value |-> <<109, 47, 120>>]>>,
                 <<[include |-> TRUE, Pattern |-> <<42>>]>>, 2, 100),
      NewOptions(<<>>, <<[include |-> TRUE, Pattern |-> <<42>>],
                         [include |-> FALSE, Pattern |-> <<42, 46, 99>>]>>, 3, 6) }

SignArgsPool ==
    { [version |-> SignVersionV2, gameType |-> GameTypeAny],
      [version |-> SignVersionV3, gameType |-> <<68, 97, 121, 90>>],
      [version |-> SignVersionV3, gameType |-> GameTypeAny] }

Injective(f) == \A i, j \in DOMAIN f : f[i] = f[j] => i = j

PackInputLists ==
    \* the input slices of a run: up to MaxInputs different inputs of the pool
    { [i \in DOMAIN f |-> PackInputPool[f[i]]] :
        f \in { g \in UNION { [1..m -> 1..Len(PackInputPool)] : m \in 0..MaxInputs } :
                  Injective(g) } }

PackInit ==
    /\ pc = "start"
    /\ call \in { [inputs |-> l, opts |-> o] : l \in PackInputLists, o \in PackOptionsPool }
    /\ file = NoFile
    /\ baks = <<>>
    /\ chans = <<>>
    /\ ret = [op |-> "none"]
    /\ hist = <<>>

DoPack ==
    \* Pack(ctx, out, inputs, opts) into a fresh seekable buffer
    /\ pc = "start"
    /\ \E cancelAt \in 0..1 :
          LET Returned(res) ==
                  /\ ret' = [op |-> "Pack", err |-> res.err, res |-> res,
                             cancelAt |-> cancelAt]
                  /\ file' = IF res.out = <<>> /\ res.err # "" THEN NoFile ELSE res.out
          IN  Returned(Pack(call.inputs, call.opts, cancelAt))
    /\ pc' = "packed"
    /\ hist' = Append(hist, ret)
    /\ UNCHANGED <<call, chans, baks>>

DoPackFile ==
    \* PackFile: the path is created or truncated, then Pack, then the trailer
    /\ pc = "start"
    /\ LET Returned(res) ==
               /\ ret' = [op |-> "PackFile", err |-> res.err, res |-> res]
               /\ file' = IF res.err # "" THEN res.out ELSE writeSHA1Trailer(res.out)
       IN  Returned(Pack(call.inputs, call.opts, 0))
    /\ pc' = "packed"
    /\ hist' = Append(hist, ret)
    /\ UNCHANGED <<call, chans, baks>>

DoPackShuffled ==
    \* a second Pack of the same inputs, given in another order
    /\ pc = "packed"
    /\ ret.op = "Pack"
    /\ \E perm \in { f \in [DOMAIN call.inputs -> DOMAIN call.inputs] : Injective(f) } :
          LET shuffled == [i \in DOMAIN call.inputs |-> call.inputs[perm[i]]]
              Returned(res) == ret' = [op |-> "PackShuffled", err |-> res.err, res |-> res,
                                       given |-> shuffled]
          IN  Returned(Pack(shuffled, call.opts, ret.cancelAt))
    /\ pc' = "done"
    /\ hist' = Append(hist, ret)
    /\ UNCHANGED <<call, chans, file, baks>>

DoOpen ==
    \* Open(path) with the default reader options
    /\ pc = "packed"
    /\ ret.err = ""
    /\ LET Returned(r) == ret' = [op |-> "Open", err |-> r.err, reader |-> r]
       IN  Returned(Open(file))
    /\ pc' = "opened"
    /\ hist' = Append(hist, ret)
    /\ UNCHANGED <<call, chans, file, baks>>

DoReadEntry ==
    \* Reader.ReadEntry(name), the name being the path of one of the inputs, as
    \* given to Pack or in its canonical archive form
    /\ pc = "opened"
    /\ ret.err = ""
    /\ \E i \in DOMAIN call.inputs :
          \E name \in {call.inputs[i].Path,
                        normalizeArchiveEntryPath(call.inputs[i].Path).path} :
             LET Returned(got) == ret' = [op |-> "ReadEntry", i |-> i, name |-> name,
                                          err |-> got.err, data |-> got.data]
             IN  Returned(ReadEntry(file, ret.reader, name))
    /\ pc' = "done"
    /\ hist' = Append(hist, ret)
    /\ UNCHANGED <<call, chans, file, baks>>

DoPackAndHash ==
    /\ pc = "start"
    /\ \E sign \in SignArgsPool :
          LET Returned(r) ==
                  /\ ret' = [op |-> "PackAndHash", err |-> r.res.err, res |-> r.res,
                             hs |-> r.hs, sign |-> sign]
                  /\ file' = IF r.res.out = <<>> THEN NoFile ELSE r.res.out
          IN  Returned(PackAndHash(call.inputs, call.opts, 0, sign.version, sign.gameType))
    /\ pc' = "hashed"
    /\ hist' = Append(hist, ret)
    /\ UNCHANGED <<call, chans, baks>>

DoPackAndHashFile ==
    /\ pc = "start"
    /\ \E sign \in SignArgsPool :
          LET Returned(r) ==
                  /\ ret' = [op |-> "PackAndHashFile", err |-> r.res.err, res |-> r.res,
                             hs |-> r.hs, sign |-> sign]
                  /\ file' = IF r.res.err # "" THEN r.res.out
                             ELSE writeSHA1Trailer(r.res.out)
          IN  Returned(PackAndHash(call.inputs, call.opts, 0, sign.version, sign.gameType))
    /\ pc' = "hashed"
    /\ hist' = Append(hist, ret)
    /\ UNCHANGED <<call, chans, baks>>

DoComputeHashSet ==
    \* ComputeHashSet(path, version, gameType) on the archive just written
    /\ pc = "hashed"
    /\ ret.err = ""
    /\ LET Returned(hs) == ret' = [op |-> "ComputeHashSet", err |-> hs.err, hs |-> hs]
       IN  Returned(ComputeHashSet(file, ret.sign.version, ret.sign.gameType))
    /\ pc' = "done"
    /\ hist' = Append(hist, ret)
    /\ UNCHANGED <<call, chans, file, baks>>

PackNext ==
    \/ DoPack
    \/ DoPackFile
    \/ DoPackShuffled
    \/ DoOpen
    \/ DoReadEntry
    \/ DoPackAndHash
    \/ DoPackAndHashFile
    \/ DoComputeHashSet

SpecPack == PackInit /\ [][PackNext]_vars

(***************************************************************************)
(* Properties of Pack, Open, ReadEntry and the hash set (SpecPack)         *)
(***************************************************************************)
CanonicalKey(in) == ToLower(normalizeArchiveEntryPath(in.Path).path)

DistinctCanonical(inputs) ==
    /\ inputs # <<>>
    /\ \A i \in DOMAIN inputs : normalizeArchiveEntryPath(inputs[i].Path).err = ""
    /\ \A i, j \in DOMAIN inputs : i # j => CanonicalKey(inputs[i]) # CanonicalKey(inputs[j])

\* C2: round-trip identity.  For a non-empty input set with pairwise distinct
\* case-insensitive canonical paths, the packed archive opens, and ReadEntry for
\* the canonical path of any input returns exactly the bytes of that input's
\* stream, whether the entry was stored raw or compressed.
C2_RoundTripIdentity ==
    /\ (ret.op = "Open" /\ DistinctCanonical(call.inputs)) => ret.err = ""
    /\ ( /\ ret.op = "ReadEntry"
         /\ DistinctCanonical(call.inputs)
         /\ ret.name = normalizeArchiveEntryPath(call.inputs[ret.i].Path).path )
          => (ret.err = "" /\ ret.data = call.inputs[ret.i].data)

\* C3: hash equivalence.  ComputeHashSet on the archive that PackAndHash wrote
\* (no trailer) or that PackAndHashFile wrote (with trailer) succeeds and returns
\* the hash set the packing call returned for the same sign version and game type.
C3_HashEquivalence ==
    ret.op = "ComputeHashSet"
        => (ret.err = "" /\ ret.hs = hist[Len(hist)].hs)

InputOfEntry(path) ==
    \* the input of the call whose canonical path is the entry's path
    CHOOSE in \in { call.inputs[i] : i \in DOMAIN call.inputs } :
        normalizeArchiveEntryPath(in.Path).path = path

StoredCompressed(w, in) ==
    /\ w.mime = MimeCompress
    /\ w.originalSize = Len(in.data)
    /\ w.originalSize > 0
    /\ w.dataSize = Len(compressLZSS(in.data))
    /\ w.dataSize < w.originalSize

StoredRaw(w, in) ==
    /\ w.mime = MimeNil
    /\ w.originalSize = 0
    /\ w.dataSize = Len(in.data)

CompressionConditions(in) ==
    \* the conditions of the compression decision as documented
    LET opts == applyDefaults(call.opts)
    IN  /\ opts.Compress # <<>>
        /\ Match(newCompressMatcher(opts.Compress), in.Path)
        /\ in.SizeHint > 0
        /\ in.SizeHint >= opts.MinCompressSize /\ in.SizeHint <= opts.MaxCompressSize
        /\ Len(in.data) >= opts.MinCompressSize /\ Len(in.data) <= opts.MaxCompressSize
        /\ Len(compressLZSS(in.data)) < Len(in.data)

PackedOk == ret.op \in {"Pack", "PackFile"} /\ ret.err = ""

\* C9 as stated: an input-backed entry is stored compressed if and only if the
\* rule set is non-empty, the matcher accepts the path, the size hint is known
\* and in range, the actual length is in range and the codec output is shorter;
\* in every other case it is stored raw with mime 0 and original size 0.
C9_CompressionDecisionAsStated ==
    PackedOk =>
        \A i \in DOMAIN ret.res.written :
            LET w == ret.res.written[i]
                in == InputOfEntry(ret.res.entries[i].Path)
            IN  IF CompressionConditions(in) THEN StoredCompressed(w, in)
                ELSE StoredRaw(w, in)

\* C9 amended: as above, with one more condition for compression: the size hint
\* must fit in what is left of the 32-bit offset space at the entry's offset
\* (SizeHint <= MaxUint32 - offset); otherwise the entry is streamed raw.
C9_CompressionDecision ==
    PackedOk =>
        \A i \in DOMAIN ret.res.written :
            LET w == ret.res.written[i]
                in == InputOfEntry(ret.res.entries[i].Path)
            IN  IF /\ CompressionConditions(in)
                   /\ in.SizeHint <= MaxUint32 - ret.res.entries[i].Offset
                THEN StoredCompressed(w, in)
                ELSE StoredRaw(w, in)

C9_Witness ==
    /\ PackedOk
    /\ \E i, j \in DOMAIN ret.res.written :
          /\ ret.res.written[i].mime = MimeCompress
          /\ ret.res.written[j].mime = MimeNil
          /\ ret.res.written[j].compressionCandidate

\* C10: deterministic ordering.  Pack of a permutation of the same inputs returns
\* the same error and byte-identical output, and the entries are written to the
\* index and the payload in lexicographic order of canonical path.
C10_DeterministicOrdering ==
    ret.op = "PackShuffled" =>
        LET first == hist[Len(hist)]
            entries == ret.res.entries
            Parsed(parsed) == parsed.err = "" /\ parsed.entries = entries
        IN  /\ ret.err = first.err
            /\ ret.res.out = first.res.out
            /\ ret.err = "" =>
                  /\ Parsed(Open(ret.res.out))
                  /\ \A i, j \in DOMAIN entries :
                        i < j => /\ StrLess(entries[i].Path, entries[j].Path)
                                 /\ entries[i].Offset + entries[i].DataSize
                                        <= entries[j].Offset

C10_Witness ==
    /\ ret.op = "PackShuffled"
    /\ ret.err = ""
    /\ Len(call.inputs) >= 2
    /\ ret.given # call.inputs
    /\ ret.res.entries[1].Path # normalizeArchiveEntryPath(call.inputs[1].Path).path

(***************************************************************************)
(* Opening and listing archives that other tools wrote (SpecReader)        *)
(*                                                                         *)
(* call = [entries, payloadLen]: the index records and the length of the   *)
(* payload region of the archive at the path; file = its bytes.            *)
(***************************************************************************)
IndexRecord(e) ==
    \* one index record as it lies on disk, the offset field included
    e.Path \o <<0>> \o PutUint32(e.MimeType) \o PutUint32(e.OriginalSize)
        \o PutUint32(e.Offset) \o PutUint32(e.TimeStamp) \o PutUint32(e.DataSize)

ArchiveBytes(entries, payloadLen) ==
    <<0>> \o PutUint32(MimeHeader) \o Zeros(headerSize - 5) \o <<0>>
        \o Concat([i \in 1..Len(entries) |-> IndexRecord(entries[i])])
        \o <<0>> \o Zeros(20)
        \o [i \in 1..payloadLen |-> 100 + i]

DataStartOf(n) == headerSize + 1 + 22 * n + 21

ForeignEntries(n) ==
    \* n index records named a, b, ...: stored offsets that are zero, small, or at
    \* and after the data start; data sizes that are zero, small, or huge
    { [i \in 1..n |-> [Path |-> <<96 + i>>, Offset |-> offs[i], DataSize |-> sizes[i],
                       OriginalSize |-> 0, TimeStamp |-> 0, MimeType |-> MimeNil]] :
        offs \in [1..n -> {0, 5, DataStartOf(n), DataStartOf(n) + 5}],
        sizes \in [1..n -> {0, 4, 200}] }

OffsetModes == {"sequential", "stored_compat", "stored_strict"}

ReaderInit ==
    /\ pc = "start"
    /\ call \in { [entries |-> es, payloadLen |-> len] :
                    es \in UNION { ForeignEntries(n) : n \in 0..MaxEntries },
                    len \in {7, 9} }
    /\ file = ArchiveBytes(call.entries, call.payloadLen)
    /\ baks = <<>>
    /\ chans = <<>>
    /\ ret = [op |-> "none"]
    /\ hist = <<>>

ListEntriesWithOptions(b, opts) ==
    \* [err, entries]; the size, ASCII and prefix filters and the sanitizers are off
    LET Settled(r) ==
            IF r.err # "" THEN [err |-> r.err, entries |-> <<>>]
            ELSE [err |-> "",
                  entries |-> IF opts.EnableJunkFilter THEN filterJunkEntries(r.entries)
                              ELSE r.entries]
        Table(t) ==
            IF t.err # "" THEN [err |-> t.err, entries |-> <<>>]
            ELSE Settled(resolveEntryOffsets(t.entries, t.off, Len(b), opts.OffsetMode))
        Header(h) ==
            IF h.err # "" THEN [err |-> h.err, entries |-> <<>>]
            ELSE Table(parseEntriesBuffered(b, h.off))
    IN  IF b = NoFile THEN [err |-> "ErrNotExist", entries |-> <<>>]
        ELSE IF Len(b) < headerSize THEN [err |-> "ErrInvalidHeader", entries |-> <<>>]
        ELSE Header(parseHeaderSection(b))

DoOpenWithOptions ==
    /\ pc = "start"
    /\ \E mode \in OffsetModes, junk \in BOOLEAN :
          LET Returned(r) == ret' = [op |-> "Open", mode |-> mode, junk |-> junk,
                                     err |-> r.err, entries |-> r.entries, reader |-> r]
          IN  Returned(parse(file, [OffsetMode |-> mode, EnableJunkFilter |-> junk]))
    /\ pc' = "opened"
    /\ hist' = Append(hist, ret)
    /\ UNCHANGED <<call, chans, file, baks>>

DoListEntriesWithOptions ==
    /\ pc = "start"
    /\ \E mode \in OffsetModes, junk \in BOOLEAN :
          LET Returned(r) == ret' = [op |-> "ListEntries", mode |-> mode, junk |-> junk,
                                     err |-> r.err, entries |-> r.entries]
          IN  Returned(ListEntriesWithOptions(file, [OffsetMode |-> mode,
                                                     EnableJunkFilter |-> junk]))
    /\ pc' = "done"
    /\ hist' = Append(hist, ret)
    /\ UNCHANGED <<call, chans, file, baks>>

DoReadForeignEntry ==
    \* Reader.ReadEntry on the opened archive
    /\ pc = "opened"
    /\ ret.err = ""
    /\ \E i \in DOMAIN ret.entries :
          LET Returned(got) == ret' = [op |-> "ReadEntry", i |-> i,
                                       name |-> ret.entries[i].Path,
                                       err |-> got.err, data |-> got.data]
          IN  Returned(ReadEntry(file, ret.reader, ret.entries[i].Path))
    /\ pc' = "done"
    /\ hist' = Append(hist, ret)
    /\ UNCHANGED <<call, chans, file, baks>>

ReaderNext ==
    \/ DoOpenWithOptions
    \/ DoListEntriesWithOptions
    \/ DoReadForeignEntry

SpecReader == ReaderInit /\ [][ReaderNext]_vars

(***************************************************************************)
(* Properties of offset resolution (SpecReader)                            *)
(***************************************************************************)
Resolved == ret.op \in {"Open", "ListEntries"}

StoredDataStart == DataStartOf(Len(call.entries))

RECURSIVE SizeSum(_, _)
SizeSum(entries, n) ==
    \* the sum of the data sizes of the first n entries
    IF n = 0 THEN 0 ELSE entries[n].DataSize + SizeSum(entries, n - 1)

WithinBounds(entries) ==
    \A i \in DOMAIN entries :
        /\ StoredDataStart <= entries[i].Offset
        /\ entries[i].Offset + entries[i].DataSize <= Len(file)

SequentialOutOfBounds ==
    ret.mode = "sequential" /\ SizeSum(call.entries, Len(call.entries)) > call.payloadLen

\* C7 as stated: after a successful Open or ListEntries in any offset mode every
\* entry lies within [data_start, file_size]; an archive whose resolution leaves
\* these bounds (Sequential mode on a payload region shorter than the sum of the
\* data sizes included) is rejected, and the rejection is INVALID_ENTRY_OFFSET.
C7_OffsetSoundnessAsStated ==
    Resolved =>
        /\ ret.err = "" => WithinBounds(ret.entries)
        /\ ret.err \in {"", "ErrInvalidEntryOffset"}
        /\ SequentialOutOfBounds => ret.err = "ErrInvalidEntryOffset"

\* C7 amended: as above, but the rejection is SIZE_OVERFLOW instead of
\* INVALID_ENTRY_OFFSET when the running sequential offset (data start plus the
\* data sizes) would exceed 2^32 - 1; it is INVALID_ENTRY_OFFSET otherwise.
C7_OffsetSoundness ==
    Resolved =>
        LET total == StoredDataStart + SizeSum(call.entries, Len(call.entries))
        IN  /\ ret.err = "" => WithinBounds(ret.entries)
            /\ ret.err \in {"", "ErrInvalidEntryOffset", "ErrSizeOverflow"}
            /\ ret.err = "ErrSizeOverflow" => total > MaxUint32
            /\ SequentialOutOfBounds =>
                  ret.err = IF total > MaxUint32 THEN "ErrSizeOverflow"
                            ELSE "ErrInvalidEntryOffset"

C7_Witness ==
    /\ Resolved
    /\ SequentialOutOfBounds
    /\ ret.err = "ErrInvalidEntryOffset"
    /\ Len(call.entries) = 2

UniformOffsets(adjust) ==
    [i \in DOMAIN call.entries |-> call.entries[i].Offset + adjust]

UniformValid(adjust) ==
    LET offs == UniformOffsets(adjust)
    IN  \A i \in DOMAIN offs :
            /\ offs[i] >= StoredDataStart
            /\ offs[i] <= MaxUint32
            /\ i > 1 => offs[i - 1] <= offs[i]
            /\ offs[i] + call.entries[i].DataSize <= Len(file)

SequentialOffsets ==
    [i \in DOMAIN call.entries |-> StoredDataStart + SizeSum(call.entries, i - 1)]

\* C8: stored-offset resolution uses the two uniform interpretations only.  When
\* some stored offset is non-zero, the resolved offsets are those of the first
\* interpretation valid for all entries (all-relative first when the first stored
\* offset is 0 or below the data start, all-absolute first otherwise); when neither
\* is valid StoredCompat yields the Sequential offsets and StoredStrict fails with
\* INVALID_ENTRY_OFFSET.  Interpretations are never mixed.
C8_UniformStoredOffsets ==
    ( /\ Resolved
      /\ ret.mode \in {"stored_compat", "stored_strict"}
      /\ ~ret.junk
      /\ \E i \in DOMAIN call.entries : call.entries[i].Offset # 0 ) =>
        LET relativeFirst == \/ call.entries[1].Offset = 0
                             \/ call.entries[1].Offset < StoredDataStart
            firstAdjust == IF relativeFirst THEN StoredDataStart ELSE 0
            secondAdjust == IF relativeFirst THEN 0 ELSE StoredDataStart
            offsets == [i \in DOMAIN ret.entries |-> ret.entries[i].Offset]
        IN  IF UniformValid(firstAdjust)
            THEN ret.err = "" /\ offsets = UniformOffsets(firstAdjust)
            ELSE IF UniformValid(secondAdjust)
            THEN ret.err = "" /\ offsets = UniformOffsets(secondAdjust)
            ELSE IF ret.mode = "stored_strict" THEN ret.err = "ErrInvalidEntryOffset"
            ELSE ret.err = "" => offsets = SequentialOffsets

(***************************************************************************)
(* Editing an archive in place (SpecEdit, SpecBackup)                      *)
(*                                                                         *)
(* file = the archive path; baks[1] = `.bak`, baks[j+1] = `.bak.j`         *)
(* call = the Editor: [ops, keep, packOptions] after OpenEditor, and how   *)
(*        many operations and commits the run goes on for                  *)
(* hist = [pre, preBaks, versions, failed, commits]: the archive and the   *)
(*        backups when the last Commit was called, the contents after each *)
(*        successful Commit, whether a Commit failed, the Commits returned *)
(* Commit is taken one file-system step at a time: prepareBackupSlot, the  *)
(* rename to `.bak`, commitFromBackup, then rollback or backup removal.    *)
(***************************************************************************)
EditCompress == NewOptions(<<>>, <<[include |-> TRUE, Pattern |-> <<42>>]>>, 2, 100)

EditSource ==
    \* the archive being edited: PackFile of `a`, stored compressed, and of `d\Y`,
    \* stored raw because its size was not known
    writeSHA1Trailer(
        Pack(<< NewInput(<<97>>, Repeat(120, 6), 6),
                NewInput(<<100, 47, 89>>, Repeat(5, 4), 0) >>,
             [EditCompress EXCEPT !.Headers = <<[Key |-> PrefixKey, Value |-> <<109>>]>>],
             0).out)

EditAddPool ==
    { NewInput(<<65>>, <<1, 2>>, 2),
      NewInput(<<110>>, Repeat(9, 6), 6),
      [NewInput(<<101>>, <<5>>, 1) EXCEPT !.openErr = TRUE],
      [NewInput(<<114>>, <<5>>, 1) EXCEPT !.readErr = TRUE],
      NewInput(<<104>>, Repeat(7, 200), 0) }

EditReplacePool ==
    { NewInput(<<65>>, <<1, 2>>, 2),
      NewInput(<<110>>, Repeat(9, 6), 6) }

EditDeletePool == { <<97>>, <<46, 47>> }

EditDeleteDirPool == { <<68>>, <<97>> }

BackupAddPool == { NewInput(<<110>>, <<8>>, 1) }

BackupReplacePool ==
    { NewInput(<<97>>, <<1>>, 1), NewInput(<<97>>, <<2, 2>>, 2) }

NoBackups == [i \in 1..(MaxKeep + 1) |-> NoFile]

NewHistory(archive) ==
    [pre |-> NoFile, preBaks |-> <<>>, versions |-> <<archive>>, failed |-> FALSE,
     commits |-> 0]

EditInit ==
    /\ pc = "idle"
    /\ call \in { [ops |-> <<>>, keep |-> 0, packOptions |-> NewOptions(<<>>, <<>>, 0, 0),
                   maxOps |-> MaxOps, maxCommits |-> 1],
                  [ops |-> <<>>, keep |-> 2, packOptions |-> EditCompress,
                   maxOps |-> MaxOps, maxCommits |-> 1] }
    /\ file = EditSource
    /\ baks = NoBackups
    /\ chans = <<>>
    /\ ret = [op |-> "none"]
    /\ hist = NewHistory(file)

BackupInit ==
    /\ pc = "idle"
    /\ call \in { [ops |-> <<>>, keep |-> k, packOptions |-> NewOptions(<<>>, <<>>, 0, 0),
                   maxOps |-> 1, maxCommits |-> MaxCommits] : k \in 0..MaxKeep }
    /\ file = EditSource
    /\ baks = NoBackups
    /\ chans = <<>>
    /\ ret = [op |-> "none"]
    /\ hist = NewHistory(file)

CanStage == pc = "idle" /\ Len(call.ops) < call.maxOps /\ hist.commits < call.maxCommits

StageInputs(kind, in) ==
    \* Editor.Add / Editor.Replace with one input
    LET Staged(n) ==
            /\ ret' = [op |-> kind, err |-> n.err]
            /\ call' = IF n.err # "" THEN call
                       ELSE [call EXCEPT !.ops = Append(@, [kind |-> kind,
                                                           inputs |-> n.inputs,
                                                           paths |-> <<>>])]
            /\ UNCHANGED <<pc, file, baks, hist, chans>>
    IN  Staged(normalizeEditorInputs(<<in>>))

StagePaths(kind, path) ==
    \* Editor.Delete / Editor.DeleteDir with one path
    LET Staged(n) ==
            /\ ret' = [op |-> kind, err |-> n.err]
            /\ call' = IF n.err # "" THEN call
                       ELSE [call EXCEPT !.ops = Append(@, [kind |-> kind, inputs |-> <<>>,
                                                           paths |-> n.paths])]
            /\ UNCHANGED <<pc, file, baks, hist, chans>>
    IN  Staged(normalizeEditorPaths(<<path>>))

DoAdd(pool) == CanStage /\ \E in \in pool : StageInputs("add", in)

DoReplace(pool) == CanStage /\ \E in \in pool : StageInputs("replace", in)

DoDelete == CanStage /\ \E path \in EditDeletePool : StagePaths("delete", path)

DoDeleteDir == CanStage /\ \E prefix \in EditDeleteDirPool : StagePaths("deleteDir", prefix)

DoOpenEditor ==
    \* OpenEditor on the same path with the same options: nothing is staged
    /\ pc = "idle"
    /\ call.ops # <<>>
    /\ hist.commits \in 1..(call.maxCommits - 1)
    /\ call' = [call EXCEPT !.ops = <<>>]
    /\ ret' = [op |-> "OpenEditor", err |-> ""]
    /\ UNCHANGED <<pc, file, baks, hist, chans>>

CommitReturns(err, res, h) ==
    \* Commit returns
    /\ ret' = [op |-> "Commit", err |-> err, res |-> res]
    /\ hist' = [h EXCEPT !.commits = @ + 1,
                         !.failed = @ \/ err # "",
                         !.versions = IF err = "" THEN Append(@, file') ELSE @]
    /\ pc' = "idle"

CommitPrepare ==
    \* Commit is called: prepareBackupSlot
    /\ pc = "idle"
    /\ hist.commits < call.maxCommits
    /\ baks' = prepareBackupSlot(baks, call.keep)
    /\ hist' = [hist EXCEPT !.pre = file, !.preBaks = baks]
    /\ pc' = "prepared"
    /\ UNCHANGED <<call, chans, file, ret>>

CommitMove ==
    \* os.Rename(path, path.bak)
    /\ pc = "prepared"
    /\ IF file = NoFile
       THEN /\ CommitReturns("ErrNotExist", NoResult, hist)
            /\ UNCHANGED <<file, baks>>
       ELSE /\ baks' = [baks EXCEPT ![1] = file]
            /\ file' = NoFile
            /\ pc' = "moved"
            /\ UNCHANGED <<ret, hist>>
    /\ UNCHANGED <<call, chans>>

CommitRewrite ==
    \* commitFromBackup; the context may be cancelled while the payloads are written
    /\ pc = "moved"
    /\ \E cancelAt \in {0, 2} :
          LET Rewritten(c) ==
                  /\ file' = c.path
                  /\ ret' = [op |-> "commitFromBackup", err |-> c.err, res |-> c.res]
                  /\ pc' = IF c.err = "" THEN "written" ELSE "failed"
          IN  Rewritten(commitFromBackup(baks[1], call.ops, call.packOptions, cancelAt))
    /\ UNCHANGED <<call, chans, baks, hist>>

CommitRollback ==
    \* rollbackFromBackup, then Commit returns the error
    /\ pc = "failed"
    /\ LET RolledBack(r) ==
               /\ file' = r.path
               /\ baks' = [baks EXCEPT ![1] = r.backup]
       IN  RolledBack(rollbackFromBackup(file, baks[1]))
    /\ CommitReturns(ret.err, NoResult, hist)
    /\ UNCHANGED <<call, chans>>

CommitFinish ==
    \* the backup is removed when none is kept, then Commit returns the result
    /\ pc = "written"
    /\ baks' = IF call.keep <= 0 THEN removeIfExists(baks, 1) ELSE baks
    /\ UNCHANGED file
    /\ CommitReturns("", ret.res, hist)
    /\ UNCHANGED <<call, chans>>

EditNext ==
    \/ DoAdd(EditAddPool)
    \/ DoReplace(EditReplacePool)
    \/ DoDelete
    \/ DoDeleteDir
    \/ CommitPrepare
    \/ CommitMove
    \/ CommitRewrite
    \/ CommitRollback
    \/ CommitFinish

SpecEdit == EditInit /\ [][EditNext]_vars

BackupNext ==
    \/ DoAdd(BackupAddPool)
    \/ DoReplace(BackupReplacePool)
    \/ DoOpenEditor
    \/ CommitPrepare
    \/ CommitMove
    \/ CommitRewrite
    \/ CommitRollback
    \/ CommitFinish

SpecBackup == BackupInit /\ [][BackupNext]_vars

(***************************************************************************)
(* Properties of Commit (SpecEdit, SpecBackup)                             *)
(***************************************************************************)
CommitReturned == pc = "idle" /\ ret.op = "Commit"

\* C1: edit atomicity.  When Commit fails for a staged reason (Add on an existing
\* path, Replace on a missing path, an input whose Open or stream fails, size
\* overflow, a cancelled context), the rollback's remove and rename succeeding,
\* the archive path holds after the return exactly the bytes it held before the call.
C1_EditAtomicity ==
    (CommitReturned /\ ret.err # "") => (file = hist.pre /\ file # NoFile)

C1_Witness ==
    /\ CommitReturned
    /\ ret.err = "ErrCanceled"
    /\ call.ops # <<>>
    /\ file = hist.pre

OpKey(op) ==
    \* the case-insensitive key a staged operation names
    ToLower(IF op.kind \in {"add", "replace"} THEN op.inputs[1].Path ELSE op.paths[1])

UnderDir(key, dir) == key = dir \/ HasPrefix(key, dir \o <<92>>)

RECURSIVE KeysAfter(_, _)
KeysAfter(keys, ops) ==
    \* [err, keys]: the staged operations taken in order on the set of keys present
    IF ops = <<>> THEN [err |-> "", keys |-> keys]
    ELSE LET op == Head(ops)
         IN  IF op.kind = "add"
             THEN IF OpKey(op) \in keys THEN [err |-> "ErrDuplicateEntryPath", keys |-> keys]
                  ELSE KeysAfter(keys \cup {OpKey(op)}, Tail(ops))
             ELSE IF op.kind = "replace"
             THEN IF OpKey(op) \notin keys THEN [err |-> "ErrEntryNotFound", keys |-> keys]
                  ELSE KeysAfter(keys, Tail(ops))
             ELSE IF op.kind = "delete" THEN KeysAfter(keys \ {OpKey(op)}, Tail(ops))
             ELSE KeysAfter({k \in keys : ~UnderDir(k, OpKey(op))}, Tail(ops))

LastWriter(key, ops) ==
    \* the last staged Add or Replace of the key, or 0 when the source entry stays
    LET writers == {i \in DOMAIN ops : ops[i].kind \in {"add", "replace"}
                                          /\ OpKey(ops[i]) = key}
    IN  IF writers = {} THEN 0 ELSE CHOOSE i \in writers : \A j \in writers : j <= i

EntryOfFinalMap(old, oldEntries, new, e, ops) ==
    \* the entry e of the new archive is what the final map holds under its key
    LET w == LastWriter(ToLower(e.Path), ops)
    IN  IF w # 0
        THEN /\ e.Path = ops[w].inputs[1].Path
             /\ openEntryByInfo(new, e) = [err |-> "", data |-> ops[w].inputs[1].data]
        ELSE \E i \in DOMAIN oldEntries :
                /\ oldEntries[i].Path = e.Path
                /\ openEntryByInfo(new, e) = openEntryByInfo(old, oldEntries[i])

\* C5: Commit applies the staged operations in staging order to a map keyed by
\* case-insensitive canonical path, initialised with the source entries.  Add fails
\* the Commit with DUPLICATE_ENTRY_PATH iff its key is present at that point,
\* Replace with ENTRY_NOT_FOUND iff its key is absent, Delete and DeleteDir never
\* fail; on success the new archive holds exactly the entries of the final map,
\* in lexicographic path order.
C5_StagedOperationsInOrder ==
    CommitReturned =>
        LET Holds(want, oldEntries, entries) ==
                /\ want.err # "" => ret.err = want.err
                /\ ret.err \in {"ErrDuplicateEntryPath", "ErrEntryNotFound"}
                      => want.err = ret.err
                /\ ret.err = "" =>
                      /\ {ToLower(entries[i].Path) : i \in DOMAIN entries} = want.keys
                      /\ Len(entries) = Cardinality(want.keys)
                      /\ \A i, j \in DOMAIN entries :
                            i < j => StrLess(entries[i].Path, entries[j].Path)
                      /\ \A i \in DOMAIN entries :
                            EntryOfFinalMap(hist.pre, oldEntries, file, entries[i], call.ops)
            Source(oldEntries) ==
                Holds(KeysAfter({ToLower(oldEntries[i].Path) : i \in DOMAIN oldEntries},
                                call.ops),
                      oldEntries, Open(file).entries)
        IN  Source(Open(hist.pre).entries)

C5_Witness ==
    /\ CommitReturned
    /\ ret.err = ""
    /\ Len(call.ops) = 2
    /\ call.ops[1].kind = "delete"
    /\ call.ops[2].kind = "add"
    /\ OpKey(call.ops[1]) = OpKey(call.ops[2])

Targeted(path, ops) ==
    \* some staged Replace, Delete or DeleteDir names the path
    \E i \in DOMAIN ops :
        \/ ops[i].kind \in {"replace", "delete"} /\ OpKey(ops[i]) = ToLower(path)
        \/ ops[i].kind = "deleteDir" /\ UnderDir(ToLower(path), OpKey(ops[i]))

PassedThrough(old, e, new, newEntries) ==
    \* the source entry e is in the new archive with the same record and packed bytes
    \E j \in DOMAIN newEntries :
        /\ newEntries[j].Path = e.Path
        /\ newEntries[j].MimeType = e.MimeType
        /\ newEntries[j].OriginalSize = e.OriginalSize
        /\ newEntries[j].TimeStamp = e.TimeStamp
        /\ newEntries[j].DataSize = e.DataSize
        /\ Slice(new, newEntries[j].Offset, newEntries[j].Offset + e.DataSize)
              = Slice(old, e.Offset, e.Offset + e.DataSize)

\* C6: editor passthrough.  After a successful Commit every source entry that no
\* staged Replace, Delete or DeleteDir targets is in the new archive with the same
\* mime, original size, timestamp and data size and byte-identical packed payload;
\* it is not recompressed or decompressed, whatever the edit's compression rules.
C6_EditorPassthrough ==
    (CommitReturned /\ ret.err = "") =>
        LET Kept(oldEntries, newEntries) ==
                \A i \in DOMAIN oldEntries :
                    ~Targeted(oldEntries[i].Path, call.ops)
                        => PassedThrough(hist.pre, oldEntries[i], file, newEntries)
        IN  Kept(Open(hist.pre).entries, Open(file).entries)

C6_Witness ==
    /\ CommitReturned
    /\ ret.err = ""
    /\ call.packOptions.Compress # <<>>
    /\ \E i \in DOMAIN call.ops : call.ops[i].kind = "add"
    /\ \E i, j \in DOMAIN ret.res.entries :
          /\ ~Targeted(ret.res.entries[i].Path, call.ops)
          /\ ret.res.entries[i].MimeType = MimeNil
          /\ LastWriter(ToLower(ret.res.entries[i].Path), call.ops) = 0
          /\ ret.res.entries[j].MimeType = MimeCompress
          /\ LastWriter(ToLower(ret.res.entries[j].Path), call.ops) = 0

BackupAt(i) == baks[i + 1]

\* C4: backup retention.  After k successful Commits with BackupKeep = N on an
\* archive with contents v0, v1, ..., vk and no backups initially: N = 0 leaves no
\* `.bak`; N >= 1 leaves `.bak` = v(k-1) and `.bak.i` = v(k-1-i) for every
\* 1 <= i <= min(N, k) - 1, and no generation beyond `.bak.(N-1)` exists.
C4_BackupRetention ==
    (CommitReturned /\ ~hist.failed /\ hist.commits >= 1) =>
        LET k == hist.commits
            N == call.keep
            v(i) == hist.versions[i + 1]
            least == IF N < k THEN N ELSE k
        IN  /\ file = v(k)
            /\ N = 0 => BackupAt(0) = NoFile
            /\ N >= 1 => /\ BackupAt(0) = v(k - 1)
                         /\ \A i \in 1..(least - 1) : BackupAt(i) = v(k - 1 - i)
            /\ \A i \in 0..MaxKeep : i >= N => BackupAt(i) = NoFile

C4_Witness ==
    /\ CommitReturned
    /\ ~hist.failed
    /\ hist.commits = 3
    /\ call.keep = 2
    /\ BackupAt(0) = hist.versions[3]
    /\ BackupAt(1) = hist.versions[2]
    /\ BackupAt(0) # BackupAt(1)
    /\ BackupAt(1) # hist.versions[1]

(***************************************************************************)
(* Filesystem-safe names (sanitizeEntryInfoPaths)                          *)
(*                                                                         *)
(* Runes are read from the bytes as Go's range loop does for ASCII and the *)
(* two-byte sequences U+0080..U+00FF; every other byte >= 0x80 decodes to  *)
(* U+FFFD.  The FNV-32a digest of shortenSegmentDeterministic is modelled  *)
(* by eight hex digits derived from the length and a weighted byte sum.    *)
(***************************************************************************)
maxSanitizedSegmentLen == 240

reservedDOSNames ==
    \* "$", "$addstor", ..., "xmsxxxx0": the device names as byte strings
    { <<36>>,
      <<36, 97, 100, 100, 115, 116, 111, 114>>,
      <<36, 105, 100, 108, 101, 36>>,
      <<51, 56, 54, 109, 97, 120, 36, 36>>,
      <<52, 100, 111, 115, 115, 116, 97, 107>>,
      <<56, 50, 49, 54, 52, 97>>,
      <<97, 117, 120>>,
      <<99, 108, 111, 97, 107, 36, 36, 36>>,
      <<99, 108, 111, 99, 107>>,
      <<99, 108, 111, 99, 107, 36>>,
      <<99, 111, 109, 49>>,
      <<99, 111, 109, 50>>,
      <<99, 111, 109, 51>>,
      <<99, 111, 109, 52>>,
      <<99, 111, 109, 53>>,
      <<99, 111, 109, 54>>,
      <<99, 111, 109, 55>>,
      <<99, 111, 109, 56>>,
      <<99, 111, 109, 57>>,
      <<99, 111, 110>>,
      <<99, 111, 110, 102, 105, 103, 36>>,
      <<100, 98, 108, 115, 115, 121, 115, 36>>,
      <<100, 112, 109, 105, 120, 120, 120, 48>>,
      <<100, 112, 109, 115, 120, 120, 120, 48>>,
      <<101, 109, 109, 36, 36, 36, 36, 36>>,
      <<101, 109, 109, 113, 120, 120, 120, 48>>,
      <<101, 109, 109, 120, 120, 120, 113, 48>>,
      <<101, 109, 109, 120, 120, 120, 120, 48>>,
      <<104, 109, 97, 108, 100, 115, 121, 115>>,
      <<105, 102, 115, 36, 104, 108, 112, 36>>,
      <<107, 98, 100, 36>>,
      <<107, 101, 121, 98, 100, 36>>,
      <<108, 112, 116, 49>>,
      <<108, 112, 116, 50>>,
      <<108, 112, 116, 51>>,
      <<108, 112, 116, 52>>,
      <<108, 112, 116, 53>>,
      <<108, 112, 116, 54>>,
      <<108, 112, 116, 55>>,
      <<108, 112, 116, 56>>,
      <<108, 112, 116, 57>>,
      <<108, 115, 116>>,
      <<109, 111, 117, 115, 101, 36>>,
      <<110, 100, 111, 115, 115, 116, 97, 107>>,
      <<110, 117, 108>>,
      <<112, 99, 36, 109, 111, 117, 115, 101>>,
      <<112, 108, 116>>,
      <<112, 111, 105, 110, 116, 101, 114, 36>>,
      <<112, 114, 110>>,
      <<112, 114, 111, 116, 109, 97, 110, 36>>,
      <<113, 100, 112, 109, 105, 36, 36, 36>>,
      <<113, 101, 109, 109, 51, 56, 54, 36>>,
      <<113, 101, 120, 116, 120, 120, 120, 48>>,
      <<113, 109, 109, 120, 120, 120, 120, 48>>,
      <<115, 99, 114, 101, 101, 110, 36>>,
      <<118, 99, 112, 105, 120, 120, 120, 48>>,
      <<120, 109, 115, 120, 120, 120, 120, 48>> }

TrimRightSet(s, cutset) ==
    \* strings.TrimRight(s, cutset)
    LET keep == { i \in 1..Len(s) : s[i] \notin cutset }
    IN  IF keep = {} THEN <<>> ELSE SubSeq(s, 1, CHOOSE i \in keep : \A j \in keep : j <= i)

LastIndexByte(s, c) ==
    \* greatest 0-based offset holding byte c, or -1
    LET at == { i \in 1..Len(s) : s[i] = c }
    IN  IF at = {} THEN -1 ELSE (CHOOSE i \in at : \A j \in at : j <= i) - 1

PathDir(p) ==
    \* path.Dir of a clean relative path
    LET i == LastIndexByte(p, 47) IN IF i < 0 THEN <<46>> ELSE Slice(p, 0, i)

PathBase(p) == Slice(p, LastIndexByte(p, 47) + 1, Len(p))

PathExt(name) ==
    \* path.Ext: from the last dot of the last element
    LET i == LastIndexByte(name, 46) IN IF i < 0 THEN <<>> ELSE Slice(name, i, Len(name))

RECURSIVE Itoa(_)
Itoa(n) == IF n < 10 THEN <<48 + n>> ELSE Itoa(n \div 10) \o <<48 + (n % 10)>>

HexDigit(d) == IF d < 10 THEN 48 + d ELSE 87 + d

Fnv32aHex(value) ==
    LET sum == WeightedSum(value, 1, Len(value)) + Len(value)
    IN  [k \in 1..8 |-> HexDigit((sum \div (16 ^ (k - 1)) + k * Len(value)) % 16)]

shortenSegmentDeterministic(value, maxLen) ==
    IF Len(value) <= maxLen THEN value
    ELSE IF maxLen <= 10 THEN Slice(value, 0, maxLen)
    ELSE Slice(value, 0, maxLen - 9) \o <<126>> \o Fnv32aHex(value)

isHex(ch) == ch \in (48..57) \cup (97..102) \cup (65..70)

isBracedGUID(token) ==
    /\ Len(token) = 38
    /\ token[1] = 123
    /\ token[38] = 125
    /\ \A idx \in 1..36 :
          IF idx \in {9, 14, 19, 24} THEN token[idx + 1] = 45 ELSE isHex(token[idx + 1])

LastIndexDotBrace(s) ==
    \* strings.LastIndex(s, ".{")
    LET at == { i \in 1..(Len(s) - 1) : s[i] = 46 /\ s[i + 1] = 123 }
    IN  IF at = {} THEN -1 ELSE (CHOOSE i \in at : \A j \in at : j <= i) - 1

sanitizeWindowsGUIDSuffix(segment) ==
    LET dotIndex == LastIndexDotBrace(segment)
    IN  IF dotIndex < 0 THEN segment
        ELSE IF ~isBracedGUID(Slice(segment, dotIndex + 1, Len(segment))) THEN segment
        ELSE Slice(segment, 0, dotIndex) \o <<95>> \o Slice(segment, dotIndex + 1, Len(segment))

isReservedDeviceName(name) ==
    LET trimmed == ToLower(TrimRightSet(TrimSpace(name), {46, 32, 58}))
        dot == IndexByte(trimmed, 0, 46)
        candidate == TrimRightSet(IF dot >= 0 THEN Slice(trimmed, 0, dot) ELSE trimmed,
                                  {46, 32, 58})
    IN  candidate # <<>> /\ candidate \in reservedDOSNames

UnsafePathBytes == {60, 62, 58, 34, 47, 92, 124, 63, 42}

ReplaceUnsafeRunes(s) ==
    \* the rune loop of sanitizePathSegment: control and format runes, U+FFFD and
    \* the characters <>:"/\|?* become "_".  Byte by byte: -1 marks the second
    \* byte of a two-byte rune that was replaced
    LET TwoByte(i) == s[i] \in {194, 195} /\ i < Len(s) /\ s[i + 1] \in 128..191
        UnsafeTwoByte(i) == s[i] = 194 /\ (s[i + 1] < 160 \/ s[i + 1] = 173)
        mapped == [i \in 1..Len(s) |->
                     IF s[i] < 128
                     THEN IF s[i] < 32 \/ s[i] = 127 \/ s[i] \in UnsafePathBytes
                          THEN 95 ELSE s[i]
                     ELSE IF TwoByte(i) THEN IF UnsafeTwoByte(i) THEN 95 ELSE s[i]
                     ELSE IF i > 1 /\ TwoByte(i - 1)
                          THEN IF UnsafeTwoByte(i - 1) THEN -1 ELSE s[i]
                     ELSE 95]
    IN  SelectSeq(mapped, LAMBDA c : c # -1)

sanitizePathSegment(segmentIn) ==
    \* [err, segment]
    LET Finish(sanitized) ==
            LET long == IF Len(sanitized) > maxSanitizedSegmentLen
                        THEN shortenSegmentDeterministic(sanitized, maxSanitizedSegmentLen)
                        ELSE sanitized
            IN  IF long = <<>> THEN [err |-> "ErrInvalidExtractPath", segment |-> <<>>]
                ELSE [err |-> "", segment |-> long]
        Reserve(rawReserved, sanitized) ==
            LET dot == IndexByte(sanitized, 0, 46)
                base == IF dot >= 0 THEN Slice(sanitized, 0, dot) ELSE sanitized
            IN  Finish(IF rawReserved \/ isReservedDeviceName(base)
                       THEN <<95>> \o sanitized ELSE sanitized)
        Replace(segment) ==
            LET trimmed == TrimRightSet(ReplaceUnsafeRunes(segment), {46, 32})
            IN  Reserve(isReservedDeviceName(segment),
                        IF trimmed = <<>> THEN <<95>> ELSE trimmed)
        Trimmed(segment) ==
            IF segment = <<>> THEN [err |-> "", segment |-> <<95>>]
            ELSE Replace(sanitizeWindowsGUIDSuffix(segment))
    IN  Trimmed(TrimSpace(segmentIn))

RECURSIVE SanitizeSegments(_, _)
SanitizeSegments(parts, acc) ==
    \* the loop of sanitizeRelativePathWith: [err, segments]
    IF parts = <<>> THEN [err |-> "", segments |-> acc]
    ELSE LET Next(part) ==
                 IF part = <<>> \/ part = <<46>> THEN SanitizeSegments(Tail(parts), acc)
                 ELSE LET Done(seg) ==
                              IF seg.err # "" THEN [err |-> seg.err, segments |-> <<>>]
                              ELSE SanitizeSegments(Tail(parts), Append(acc, seg.segment))
                      IN  Done(sanitizePathSegment(part))
         IN  Next(TrimSpace(Head(parts)))

sanitizeRelativePath(relativePath) ==
    \* [err, path]
    LET Joined(r) ==
            IF r.err # "" THEN [err |-> r.err, path |-> <<>>]
            ELSE IF r.segments = <<>> THEN [err |-> "", path |-> <<95>>]
            ELSE [err |-> "", path |-> JoinSlash(r.segments)]
    IN  Joined(SanitizeSegments(SplitSlash(relativePath), <<>>))

withNumericSuffix(name, n) ==
    LET ext == PathExt(name)
        base == Slice(name, 0, Len(name) - Len(ext))
        suffix == <<126>> \o Itoa(n)
        room == maxSanitizedSegmentLen - Len(ext) - Len(suffix)
        allowedBaseLen == IF room > 1 THEN room ELSE 1
    IN  (IF Len(base) > allowedBaseLen THEN shortenSegmentDeterministic(base, allowedBaseLen)
         ELSE base) \o suffix \o ext

MaxSuffix == 1000000

RECURSIVE FreeSuffix(_, _, _, _)
FreeSuffix(dir, name, used, idx) ==
    \* the least idx at or after the given one whose candidate key is unused, or
    \* MaxSuffix when the loop runs out: [idx, candidate]
    IF idx >= MaxSuffix THEN [idx |-> idx, candidate |-> <<>>]
    ELSE LET Try(candidate) ==
                 IF ToLower(candidate) \in used THEN FreeSuffix(dir, name, used, idx + 1)
                 ELSE [idx |-> idx, candidate |-> candidate]
         IN  Try(IF dir # <<46>> THEN dir \o <<47>> \o withNumericSuffix(name, idx)
                 ELSE withNumericSuffix(name, idx))

makeSanitizedPathUniqueForgetful(pathValue, used, nextSuffix) ==
    \* a version that does not record the names it hands out
    LET key == ToLower(pathValue)
        Found(f) == [err |-> "", path |-> f.candidate, used |-> used,
                     nextSuffix |-> nextSuffix]
    IN  IF key \notin used
        THEN [err |-> "", path |-> pathValue, used |-> used \cup {key},
              nextSuffix |-> nextSuffix]
        ELSE Found(FreeSuffix(PathDir(pathValue), PathBase(pathValue), used, 2))

makeSanitizedPathUnique(pathValue, used, nextSuffix) ==
    \* [err, path, used, nextSuffix]
    LET key == ToLower(pathValue)
        startIdx == IF key \in DOMAIN nextSuffix /\ nextSuffix[key] > 2
                    THEN nextSuffix[key] ELSE 2
        Found(f) ==
            IF f.idx >= MaxSuffix
            THEN [err |-> "ErrInvalidExtractPath", path |-> <<>>, used |-> used,
                  nextSuffix |-> nextSuffix]
            ELSE [err |-> "", path |-> f.candidate,
                  used |-> used \cup {ToLower(f.candidate)},
                  nextSuffix |-> [k \in DOMAIN nextSuffix \cup {key} |->
                                     IF k = key THEN f.idx + 1 ELSE nextSuffix[k]]]
    IN  IF key \notin used
        THEN [err |-> "", path |-> pathValue, used |-> used \cup {key},
              nextSuffix |-> nextSuffix]
        ELSE Found(FreeSuffix(PathDir(pathValue), PathBase(pathValue), used, startIdx))

RECURSIVE SanitizeEntries(_, _, _, _, _)
SanitizeEntries(entries, i, used, nextSuffix, out) ==
    \* the loop of sanitizeEntryInfoPaths: [err, entries]
    IF i > Len(entries) THEN [err |-> "", entries |-> out]
    ELSE LET failed == [err |-> "ErrInvalidExtractPath", entries |-> <<>>]
             Unique(u) ==
                 IF u.err # "" THEN failed
                 ELSE IF normalizeExtractEntryPath(u.path).err # "" THEN failed
                 ELSE SanitizeEntries(entries, i + 1, u.used, u.nextSuffix,
                                      Append(out, [entries[i] EXCEPT !.Path = u.path]))
             Sanitized(s) ==
                 IF s.err # "" THEN failed
                 ELSE Unique(makeSanitizedPathUnique(s.path, used, nextSuffix))
             Normalized(n) ==
                 Sanitized(sanitizeRelativePath(
                     IF n.err = "" THEN n.path ELSE ReplaceByte(entries[i].Path, 92, 47)))
         IN  Normalized(normalizeExtractEntryPath(entries[i].Path))

sanitizeEntryInfoPaths(entries) == SanitizeEntries(entries, 1, {}, <<>>, <<>>)

(***************************************************************************)
(* Extract: the producer, the worker goroutines and the two channels       *)
(* (SpecExtract)                                                           *)
(*                                                                         *)
(* call  = [archive, entries, opts]: the Reader's source, the selected     *)
(*         entries and the ExtractOptions; mayCancel: whether the caller   *)
(*         may cancel its context                                          *)
(* file  = the tree under dstDir: [dirs, files]                            *)
(* pc    = [main, next, w]: where Extract and each worker stand            *)
(* chans = [items, taskCh, taskClosed, errCh, cancelled, callerCancelled,  *)
(*          task, err]: work items, both buffered channels, the derived    *)
(*         and the caller's context, what each worker holds                *)
(* hist  = the events in the order they happened                           *)
(***************************************************************************)
MaxItems == 2
MaxWorkers == 2

NoTree == [dirs |-> {}, files |-> <<>>]

NilError == [err |-> "", path |-> <<>>]

ErrCanceled == [err |-> "ErrCanceled", path |-> <<>>]

RECURSIVE prepareExtractWorkItems(_, _)
prepareExtractWorkItems(entries, acc) ==
    \* [err, items]: blank paths are skipped, an unsafe path fails the batch
    IF entries = <<>> THEN [err |-> "", items |-> acc]
    ELSE LET entry == Head(entries)
             Normalized(n) ==
                 IF n.err # "" THEN [err |-> n.err, items |-> <<>>]
                 ELSE prepareExtractWorkItems(
                          Tail(entries),
                          Append(acc, [entry |-> entry, relPath |-> n.path,
                                       relDir |-> IF PathDir(n.path) = <<46>> THEN <<>>
                                                  ELSE PathDir(n.path)]))
         IN  IF TrimSpace(entry.Path) = <<>> THEN prepareExtractWorkItems(Tail(entries), acc)
             ELSE Normalized(normalizeExtractEntryPath(entry.Path))

MkdirAll(tree, dir) ==
    \* [err, tree]: the directory and its parents; fails on a parent that is a file
    LET parts == SplitSlash(dir)
        chain == { JoinSlash(SubSeq(parts, 1, k)) : k \in 1..Len(parts) }
    IN  IF chain \cap DOMAIN tree.files # {} THEN [err |-> "ErrNotDir", tree |-> tree]
        ELSE [err |-> "", tree |-> [tree EXCEPT !.dirs = @ \cup chain]]

RECURSIVE prepareExtractDirs(_, _)
prepareExtractDirs(tree, workItems) ==
    \* [err, tree]: every parent directory of the work items, made up-front
    IF workItems = <<>> THEN [err |-> "", tree |-> tree]
    ELSE LET Made(m) == IF m.err # "" THEN m ELSE prepareExtractDirs(m.tree, Tail(workItems))
         IN  IF Head(workItems).relDir = <<>> THEN prepareExtractDirs(tree, Tail(workItems))
             ELSE Made(MkdirAll(tree, Head(workItems).relDir))

WriteFile(tree, path, data) ==
    [tree EXCEPT !.files = [q \in DOMAIN tree.files \cup {path} |->
                               IF q = path THEN data ELSE tree.files[q]]]

openExtractFile(tree, path, mode, expectedSize) ==
    \* [err, tree, needsTruncate]: the output file as the mode opens it
    LET exists == path \in DOMAIN tree.files
        failed(e) == [err |-> e, tree |-> tree, needsTruncate |-> FALSE]
        opened(t, trunc) == [err |-> "", tree |-> t, needsTruncate |-> trunc]
    IN  IF mode \notin {"auto", "overwrite_smart", "truncate", "create_only"}
        THEN failed("ErrUnknownMode")
        ELSE IF path \in tree.dirs
        THEN failed(IF mode = "create_only" THEN "ErrExist" ELSE "ErrIsDir")
        ELSE IF mode = "create_only"
        THEN IF exists THEN failed("ErrExist") ELSE opened(WriteFile(tree, path, <<>>), FALSE)
        ELSE IF mode = "overwrite_smart"
        THEN IF exists THEN opened(tree, Len(tree.files[path]) > expectedSize)
             ELSE opened(WriteFile(tree, path, <<>>), FALSE)
        ELSE opened(WriteFile(tree, path, <<>>), FALSE)

copyExtractData(tree, path, data) ==
    \* the bytes written from offset 0 over what the opened file holds
    LET old == tree.files[path]
    IN  WriteFile(tree, path, data \o Slice(old, Len(data), Len(old)))

extractPreparedEntry(cancelled, tree, archive, task, fileMode) ==
    \* [err, tree, wrote]: one work item written under dstDir
    LET name == task.entry.Path
        expectedSize == IF task.entry.OriginalSize > 0 THEN task.entry.OriginalSize
                        ELSE task.entry.DataSize
        Copied(rc, o) ==
            LET copied == copyExtractData(o.tree, task.relPath, rc.data)
            IN  IF rc.err # ""
                THEN [err |-> [err |-> rc.err, path |-> name], tree |-> copied,
                      wrote |-> FALSE]
                ELSE [err |-> NilError,
                      tree |-> IF o.needsTruncate
                               THEN WriteFile(copied, task.relPath, rc.data) ELSE copied,
                      wrote |-> TRUE]
        Opened(rc, o) ==
            IF o.err # ""
            THEN [err |-> [err |-> o.err, path |-> name], tree |-> tree, wrote |-> FALSE]
            ELSE Copied(rc, o)
        Stream(rc) == Opened(rc, openExtractFile(tree, task.relPath, fileMode, expectedSize))
    IN  IF cancelled THEN [err |-> ErrCanceled, tree |-> tree, wrote |-> FALSE]
        ELSE Stream(openEntryByInfo(archive, task.entry))

lastError(errs) ==
    \* the last error that is not nil
    LET bad == SelectSeq(errs, LAMBDA e : e # NilError)
    IN  IF bad = <<>> THEN NilError ELSE bad[Len(bad)]

firstError(errs) ==
    \* the drain of errCh: the first error that is not nil
    LET bad == SelectSeq(errs, LAMBDA e : e # NilError)
    IN  IF bad = <<>> THEN NilError ELSE Head(bad)

(***************************************************************************)
(* The SHA-1 trailer applied repeatedly (SpecTrailer)                      *)
(*                                                                         *)
(* file = the bytes at the path (NoFile: the path does not exist);         *)
(* hist = the contents of the file after each successful application.      *)
(***************************************************************************)
MaxApplies == 3

TrailerBodies ==
    \* short contents over a few byte values, 0x00 among them
    UNION { [1..n -> {0, 1, 7}] : n \in 0..3 }

TrailerFiles ==
    \* a body alone; with its trailer; with 0x00 and 20 bytes that are no digest of
    \* it; with 21 zero bytes
    UNION { { body,
              body \o <<0>> \o SHA1(body),
              body \o <<0>> \o [k \in 1..shaSize |-> 9],
              body \o Zeros(21) } : body \in TrailerBodies }

TrailerInit ==
    /\ pc = "start"
    /\ call = [path |-> "archive"]
    /\ file \in TrailerFiles \cup {NoFile}
    /\ baks = <<>>
    /\ chans = <<>>
    /\ ret = [op |-> "none"]
    /\ hist = <<>>

DoWriteSHA1Trailer ==
    \* writeSHA1Trailer(path) on an existing file
    /\ file # NoFile
    /\ Len(hist) < MaxApplies
    /\ LET Written(out) ==
               /\ file' = out
               /\ hist' = Append(hist, out)
       IN  Written(writeSHA1Trailer(file))
    /\ ret' = [op |-> "writeSHA1Trailer", err |-> "", before |-> file]
    /\ pc' = "written"
    /\ UNCHANGED <<call, chans, baks>>

DoWriteSHA1TrailerMissing ==
    \* os.OpenFile fails: no file is created
    /\ file = NoFile
    /\ pc = "start"
    /\ ret' = [op |-> "writeSHA1Trailer", err |-> "ErrNotExist", before |-> file]
    /\ pc' = "failed"
    /\ UNCHANGED <<call, chans, file, baks, hist>>

TrailerNext ==
    \/ DoWriteSHA1Trailer
    \/ DoWriteSHA1TrailerMissing

SpecTrailer == TrailerInit /\ [][TrailerNext]_vars

EndsWithTrailer(b) ==
    \* b ends with 0x00 followed by the digest of all bytes before that 0x00
    /\ Len(b) >= 21
    /\ b[Len(b) - 20] = 0
    /\ Slice(b, Len(b) - 20, Len(b)) = SHA1(Slice(b, 0, Len(b) - 21))

\* C11: trailer idempotence.  After any application of writeSHA1Trailer the file
\* ends with 0x00 followed by the SHA-1 of all bytes before that trailer, and
\* every further application leaves the file exactly as the first one left it.
C11_TrailerIdempotence ==
    (ret.op = "writeSHA1Trailer" /\ ret.err = "") =>
        /\ EndsWithTrailer(file)
        /\ \A i \in DOMAIN hist : hist[i] = hist[1]
        /\ file = hist[1]

C11_Witness ==
    /\ ret.op = "writeSHA1Trailer"
    /\ Len(hist) >= 2
    /\ file = hist[1]
    /\ EndsWithTrailer(ret.before)
    /\ Len(hist[1]) > 21

(***************************************************************************)
(* Sanitising a batch of entry paths (SpecSanitize)                        *)
(*                                                                         *)
(* call = [entries]: the batch; ret = what sanitizeEntryInfoPaths returned *)
(***************************************************************************)
MaxBatch == 3

LongName == Repeat(120, maxSanitizedSegmentLen - 1) \o <<46, 116>>

CollidingPathPool ==
    \* a.txt, A.TXT, a~2.txt, /a.txt: paths whose sanitised forms collide
    { <<97, 46, 116, 120, 116>>, <<65, 46, 84, 88, 84>>,
      <<97, 126, 50, 46, 116, 120, 116>>, <<47, 97, 46, 116, 120, 116>> }

ManglingPathPool ==
    \* d\a.txt, ..\a.txt, C:\x, con.txt, a blank path, a NUL byte, a name one byte
    \* over the segment limit
    { <<100, 92, 97, 46, 116, 120, 116>>, <<46, 46, 92, 97, 46, 116, 120, 116>>,
      <<67, 58, 92, 120>>, <<99, 111, 110, 46, 116, 120, 116>>, <<32>>, <<97, 0>>,
      LongName }

SanitizeBatches ==
    UNION ( { [1..n -> CollidingPathPool] : n \in 1..MaxBatch }
              \cup { [1..n -> ManglingPathPool] : n \in 1..(MaxBatch - 1) } )

SanitizeEntry(path, k) ==
    [Path |-> path, Offset |-> 10 * k, DataSize |-> k, OriginalSize |-> 0,
     TimeStamp |-> k, MimeType |-> MimeNil]

SanitizeInit ==
    /\ pc = "start"
    /\ call \in { [entries |-> [k \in DOMAIN paths |-> SanitizeEntry(paths[k], k)]] :
                    paths \in SanitizeBatches }
    /\ file = NoFile
    /\ baks = <<>>
    /\ chans = <<>>
    /\ ret = [op |-> "none"]
    /\ hist = <<>>

DoSanitizeEntryInfoPaths ==
    /\ pc = "start"
    /\ LET Returned(r) == ret' = [op |-> "sanitizeEntryInfoPaths", err |-> r.err,
                                  entries |-> r.entries]
       IN  Returned(sanitizeEntryInfoPaths(call.entries))
    /\ pc' = "done"
    /\ UNCHANGED <<call, chans, file, baks, hist>>

DoSanitizePath ==
    \* SanitizePath on the first path of the batch
    /\ pc = "start"
    /\ LET n == NormalizePath(call.entries[1].Path)
           Returned(r) == ret' = [op |-> "SanitizePath", err |-> r.err, path |-> r.path]
           Checked(r) ==
               Returned(IF r.err = "" /\ normalizeExtractEntryPath(r.path).err # ""
                        THEN [err |-> "ErrInvalidExtractPath", path |-> <<>>] ELSE r)
       IN  IF n = <<>> THEN Returned([err |-> "", path |-> <<>>])
           ELSE Checked(sanitizeRelativePath(n))
    /\ pc' = "done"
    /\ UNCHANGED <<call, chans, file, baks, hist>>

SanitizeNext ==
    \/ DoSanitizeEntryInfoPaths
    \/ DoSanitizePath

SpecSanitize == SanitizeInit /\ [][SanitizeNext]_vars

SanitizeReturned == ret.op = "sanitizeEntryInfoPaths"

BeforeUnique(i) ==
    \* the sanitised path of entry i before collisions are resolved
    LET n == normalizeExtractEntryPath(call.entries[i].Path)
    IN  sanitizeRelativePath(IF n.err = "" THEN n.path
                             ELSE ReplaceByte(call.entries[i].Path, 92, 47)).path

Collides(i) ==
    \E j \in 1..(i - 1) : ToLower(ret.entries[j].Path) = ToLower(BeforeUnique(i))

SuffixNumbers == 2..(MaxBatch + 2)

HasNumericSuffix(out, before, n) ==
    \* out is `before` with "~n" put before the extension of its last element; a
    \* stem that would pass the segment limit may be shortened
    LET name == PathBase(before)
        ext == PathExt(name)
        stem == Slice(name, 0, Len(name) - Len(ext))
        tail == <<126>> \o Itoa(n) \o ext
        outName == PathBase(out)
    IN  /\ PathDir(out) = PathDir(before)
        /\ HasSuffix(outName, tail)
        /\ IF Len(stem) + Len(tail) <= maxSanitizedSegmentLen
           THEN outName = stem \o tail
           ELSE Len(outName) <= maxSanitizedSegmentLen

SuffixNumber(i) ==
    CHOOSE n \in SuffixNumbers : HasNumericSuffix(ret.entries[i].Path, BeforeUnique(i), n)

\* C13: batch sanitisation keeps identity.  sanitizeEntryInfoPaths returns as many
\* entries as it was given, in the same order and with only the path changed;
\* every output path passes the extraction-safety normalizer; the output paths
\* are pairwise distinct after lowercasing; a path that collides with an earlier
\* output receives ~N, N >= 2, before its extension, and N increases strictly
\* over successive collisions of the same base.
C13_BatchSanitisation ==
    SanitizeReturned =>
        /\ ret.err = ""
        /\ Len(ret.entries) = Len(call.entries)
        /\ \A i \in DOMAIN ret.entries :
              /\ ret.entries[i] = [call.entries[i] EXCEPT !.Path = ret.entries[i].Path]
              /\ normalizeExtractEntryPath(ret.entries[i].Path).err = ""
              /\ IF Collides(i)
                 THEN \E n \in SuffixNumbers :
                         HasNumericSuffix(ret.entries[i].Path, BeforeUnique(i), n)
                 ELSE ret.entries[i].Path = BeforeUnique(i)
        /\ \A i, j \in DOMAIN ret.entries :
              i # j => ToLower(ret.entries[i].Path) # ToLower(ret.entries[j].Path)
        /\ \A i, j \in DOMAIN ret.entries :
              ( /\ i < j
                /\ Collides(i)
                /\ Collides(j)
                /\ ToLower(BeforeUnique(i)) = ToLower(BeforeUnique(j)) )
                  => SuffixNumber(i) < SuffixNumber(j)

C13_Witness ==
    /\ SanitizeReturned
    /\ ret.err = ""
    /\ Len(ret.entries) = 3
    /\ Collides(2)
    /\ Collides(3)
    /\ ToLower(BeforeUnique(2)) = ToLower(BeforeUnique(3))
    /\ SuffixNumber(2) = 2
    /\ SuffixNumber(3) = 3
    /\ normalizeExtractEntryPath(call.entries[3].Path).err # ""

(***************************************************************************)
(* Extract scenarios                                                       *)
(***************************************************************************)
ExtractArchive == <<2, 7, 5, 6, 3, 9>>

ExtractEntry(path, mime, originalSize, offset, dataSize) ==
    [Path |-> path, Offset |-> offset, DataSize |-> dataSize,
     OriginalSize |-> originalSize, TimeStamp |-> 0, MimeType |-> mime]

SafeEntryPool ==
    \* a (raw), d\b (compressed), c (compressed, the stream ends early)
    { ExtractEntry(<<97>>, MimeNil, 0, 2, 2),
      ExtractEntry(<<100, 92, 98>>, MimeCompress, 2, 0, 2),
      ExtractEntry(<<99>>, MimeCompress, 5, 4, 2) }

OddEntryPool ==
    \* ..\e (a parent segment), a blank path
    { ExtractEntry(<<46, 46, 92, 101>>, MimeNil, 0, 2, 1),
      ExtractEntry(<<32>>, MimeNil, 0, 2, 1) }

InsertAt(s, i, e) ==
    IF i > Len(s) THEN Append(s, e)
    ELSE SubSeq(s, 1, i - 1) \o <<e>> \o SubSeq(s, i, Len(s))

ExtractBatches ==
    \* the safe entries in every order, and the batches with one odd entry in them
    LET safe(k) == { f \in UNION { [1..n -> SafeEntryPool] : n \in 0..k } : Injective(f) }
    IN  safe(MaxItems)
        \cup { InsertAt(s, i, e) : s \in safe(MaxItems - 1), i \in 1..MaxItems,
                                   e \in OddEntryPool }

ExtractSetups ==
    \* raw names into an empty directory; sanitised names, create-only, into a
    \* directory that already holds a file "a"
    { [RawNames |-> TRUE, FileMode |-> "auto", mayCancel |-> TRUE, tree |-> NoTree],
      [RawNames |-> FALSE, FileMode |-> "create_only", mayCancel |-> FALSE,
       tree |-> WriteFile(NoTree, <<97>>, <<1, 2, 3>>)] }

ExtractInit ==
    /\ pc = [main |-> "start", next |-> 1, w |-> <<>>]
    /\ \E setup \in ExtractSetups, workers \in 1..MaxWorkers :
          /\ call \in { [archive |-> ExtractArchive, entries |-> es,
                         opts |-> [RawNames |-> setup.RawNames,
                                   FileMode |-> setup.FileMode,
                                   MaxWorkers |-> workers]] :
                          es \in ExtractBatches }
          /\ file = setup.tree
          /\ chans = [items |-> <<>>, taskCh |-> <<>>, taskClosed |-> FALSE,
                      errCh |-> <<>>, cancelled |-> FALSE, callerCancelled |-> FALSE,
                      mayCancel |-> setup.mayCancel, before |-> setup.tree,
                      task |-> <<>>, err |-> <<>>, taken |-> <<>>]
    /\ baks = <<>>
    /\ ret = [op |-> "none"]
    /\ hist = <<>>

ExtractReturns(err) ==
    \* Extract returns; the deferred cancel() runs
    /\ ret' = [op |-> "Extract", err |-> err, before |-> chans.before]
    /\ pc' = [pc EXCEPT !.main = "done"]
    /\ chans' = [chans EXCEPT !.cancelled = TRUE]

ExtractPrepare ==
    \* Extract up to the start of the workers: sanitising, the work items, the
    \* directories, the channels and the derived context
    /\ pc.main = "start"
    /\ LET Fails(err, tree) ==
               /\ ExtractReturns([err |-> err, path |-> <<>>])
               /\ file' = tree
               /\ UNCHANGED hist
           Dirs(items, d) ==
               IF d.err # "" THEN Fails(d.err, d.tree)
               ELSE /\ file' = d.tree
                    /\ chans' = [chans EXCEPT
                                   !.items = items,
                                   !.cancelled = chans.callerCancelled,
                                   !.taken = [i \in DOMAIN items |-> 0],
                                   !.task = [w \in 1..call.opts.MaxWorkers |-> 0],
                                   !.err = [w \in 1..call.opts.MaxWorkers |-> NilError]]
                    /\ pc' = [main |-> "produce", next |-> 1,
                              w |-> [w \in 1..call.opts.MaxWorkers |-> "idle"]]
                    /\ UNCHANGED <<ret, hist>>
           Items(p) ==
               IF p.err # "" THEN Fails(p.err, file)
               ELSE IF p.items = <<>> THEN Fails("", file)
               ELSE Dirs(p.items, prepareExtractDirs(file, p.items))
           Sanitized(r) ==
               IF r.err # "" THEN Fails(r.err, file)
               ELSE Items(prepareExtractWorkItems(r.entries, <<>>))
       IN  IF call.entries = <<>> THEN Fails("", file)
           ELSE IF ~call.opts.RawNames THEN Sanitized(sanitizeEntryInfoPaths(call.entries))
           ELSE Items(prepareExtractWorkItems(call.entries, <<>>))
    /\ UNCHANGED <<call, baks>>

HasFailed ==
    \* a worker's extractPreparedEntry has returned an error
    \E i \in DOMAIN hist : hist[i].ev = "failed"

ReceivedLate(item) ==
    \* the item was taken from taskCh after a worker's extraction had failed
    \E i \in DOMAIN hist : hist[i].ev = "received" /\ hist[i].item = item

ProducerSend ==
    \* the producer's select takes `taskCh <- task`, which needs room in the channel
    /\ pc.main = "produce"
    /\ pc.next <= Len(chans.items)
    /\ Len(chans.taskCh) < Len(chans.items)
    /\ chans' = [chans EXCEPT !.taskCh = Append(@, pc.next)]
    /\ pc' = [pc EXCEPT !.next = @ + 1]
    /\ UNCHANGED <<call, file, baks, ret, hist>>

ProducerSeesDoneLeavingOpen ==
    \* variant of ProducerSeesDone that returns to wg.Wait() without close(taskCh)
    /\ pc.main = "produce"
    /\ pc.next <= Len(chans.items)
    /\ chans.cancelled
    /\ pc' = [pc EXCEPT !.main = "waitCancelled"]
    /\ UNCHANGED <<call, file, baks, ret, hist, chans>>

ProducerSeesDone ==
    \* the producer's select takes `<-ctx.Done()`: close(taskCh), then wg.Wait()
    /\ pc.main = "produce"
    /\ pc.next <= Len(chans.items)
    /\ chans.cancelled
    /\ chans' = [chans EXCEPT !.taskClosed = TRUE]
    /\ pc' = [pc EXCEPT !.main = "waitCancelled"]
    /\ UNCHANGED <<call, file, baks, ret, hist>>

ProducerClose ==
    \* every task was sent: close(taskCh), then wg.Wait()
    /\ pc.main = "produce"
    /\ pc.next > Len(chans.items)
    /\ chans' = [chans EXCEPT !.taskClosed = TRUE]
    /\ pc' = [pc EXCEPT !.main = "wait"]
    /\ UNCHANGED <<call, file, baks, ret, hist>>

WorkerReceive(w) ==
    \* `for task := range taskCh`: the next buffered task
    /\ pc.main \in {"produce", "wait", "waitCancelled"}
    /\ pc.w[w] = "idle"
    /\ chans.taskCh # <<>>
    /\ chans' = [chans EXCEPT !.taskCh = Tail(@), !.task[w] = Head(chans.taskCh),
                              !.taken[Head(chans.taskCh)] = @ + 1]
    /\ pc' = [pc EXCEPT !.w[w] = "extract"]
    /\ hist' = IF HasFailed
               THEN Append(hist, [ev |-> "received", item |-> Head(chans.taskCh),
                                  err |-> NilError])
               ELSE hist
    /\ UNCHANGED <<call, file, baks, ret>>

WorkerExit(w) ==
    \* the range loop ends: taskCh is closed and drained
    /\ pc.main \in {"wait", "waitCancelled"}
    /\ pc.w[w] = "idle"
    /\ chans.taskCh = <<>>
    /\ chans.taskClosed
    /\ pc' = [pc EXCEPT !.w[w] = "exited"]
    /\ UNCHANGED <<call, file, baks, ret, hist, chans>>

WorkerExtract(w) ==
    \* extractPreparedEntry for the task the worker holds
    /\ pc.main \in {"produce", "wait", "waitCancelled"}
    /\ pc.w[w] = "extract"
    /\ LET Extracted(x) ==
               /\ file' = x.tree
               /\ chans' = [chans EXCEPT !.err[w] = x.err]
               /\ hist' = IF x.wrote /\ ReceivedLate(chans.task[w])
                          THEN Append(hist, [ev |-> "wrote", item |-> chans.task[w],
                                             err |-> x.err])
                          ELSE IF x.err.err \notin {"", "ErrCanceled"} /\ ~HasFailed
                          THEN Append(hist, [ev |-> "failed", item |-> chans.task[w],
                                             err |-> x.err])
                          ELSE hist
       IN  Extracted(extractPreparedEntry(chans.cancelled, file, call.archive,
                                          chans.items[chans.task[w]], call.opts.FileMode))
    /\ pc' = [pc EXCEPT !.w[w] = "report"]
    /\ UNCHANGED <<call, baks, ret>>

WorkerReport(w) ==
    \* the worker's select takes `errCh <- err`, which needs room in the channel
    /\ pc.main \in {"produce", "wait", "waitCancelled"}
    /\ pc.w[w] = "report"
    /\ Len(chans.errCh) < Len(chans.items)
    /\ chans' = [chans EXCEPT !.errCh = Append(@, chans.err[w])]
    /\ pc' = [pc EXCEPT !.w[w] = "idle"]
    /\ UNCHANGED <<call, file, baks, ret, hist>>

WorkerSeesDone(w) ==
    \* the worker's select takes `<-ctx.Done()`: the worker returns, its error unsent
    /\ pc.main \in {"produce", "wait", "waitCancelled"}
    /\ pc.w[w] = "report"
    /\ chans.cancelled
    /\ pc' = [pc EXCEPT !.w[w] = "exited"]
    /\ UNCHANGED <<call, file, baks, ret, hist, chans>>

CallerCancels ==
    \* the caller cancels the context it passed to Extract
    /\ pc.main \in {"start", "produce", "wait"}
    /\ chans.mayCancel
    /\ ~chans.callerCancelled
    /\ chans' = [chans EXCEPT !.callerCancelled = TRUE,
                              !.cancelled = pc.main # "start" \/ chans.cancelled]
    /\ UNCHANGED <<pc, call, file, baks, ret, hist>>

ExtractFinish ==
    \* wg.Wait() returns; after a full hand-out errCh is closed and drained
    /\ pc.main \in {"wait", "waitCancelled"}
    /\ \A w \in DOMAIN pc.w : pc.w[w] = "exited"
    /\ IF pc.main = "waitCancelled" THEN ExtractReturns(ErrCanceled)
       ELSE ExtractReturns(firstError(chans.errCh))
    /\ UNCHANGED <<call, file, baks, hist>>

ExtractNext ==
    \/ ExtractPrepare
    \/ ProducerSend
    \/ ProducerSeesDone
    \/ ProducerClose
    \/ \E w \in DOMAIN pc.w : WorkerReceive(w)
    \/ \E w \in DOMAIN pc.w : WorkerExit(w)
    \/ \E w \in DOMAIN pc.w : WorkerExtract(w)
    \/ \E w \in DOMAIN pc.w : WorkerReport(w)
    \/ \E w \in DOMAIN pc.w : WorkerSeesDone(w)
    \/ CallerCancels
    \/ ExtractFinish

SpecExtract == ExtractInit /\ [][ExtractNext]_vars

\* C12: Extract with RawNames=true fails with INVALID_EXTRACT_PATH whenever a
\* selected entry path is rejected by the extraction-safety normalizer, before
\* any worker starts: no entry file and no sub-directory is created under dstDir,
\* even for the safe entries of the same batch.
C12_RawNamesRejectsUnsafe ==
    ( /\ call.opts.RawNames
      /\ \E i \in DOMAIN call.entries :
            normalizeExtractEntryPath(call.entries[i].Path).err # "" ) =>
        /\ pc.w = <<>>
        /\ file = chans.before
        /\ pc.main = "done" => ret.err.err = "ErrInvalidExtractPath"

\* C14: Extract cancels on first failure.  As soon as a worker's extraction of an
\* entry has returned an error the shared context is cancelled, and no work item
\* that had not been started by then is written afterwards.
C14_CancelOnFirstFailure ==
    /\ HasFailed => chans.cancelled
    /\ \A i \in DOMAIN hist : hist[i].ev # "wrote"

\* C15: Extract surfaces the first error.  When the caller's context is not
\* cancelled, every work item is reported on the error channel; Extract returns
\* nil when none failed, and otherwise the first error that is not nil in the
\* order of the error channel.
C15_FirstErrorSurfaced ==
    (pc.main = "done" /\ chans.items # <<>> /\ ~chans.callerCancelled) =>
        LET failing == { i \in DOMAIN chans.errCh : chans.errCh[i] # NilError }
        IN  /\ Len(chans.errCh) = Len(chans.items)
            /\ IF failing = {} THEN ret.err = NilError
               ELSE /\ ret.err # NilError
                    /\ \E i \in failing : /\ \A j \in failing : i <= j
                                          /\ ret.err = chans.errCh[i]

C15_Witness ==
    /\ pc.main = "done" /\ ~chans.callerCancelled
    /\ Len(pc.w) = 2
    /\ \E i, j \in DOMAIN chans.errCh :
          /\ i < j
          /\ chans.errCh[i].err = "ErrDecompress"
          /\ chans.errCh[j].err = "ErrExist"
          /\ ret.err = chans.errCh[i]
          /\ chans.items[1].entry.Path = chans.errCh[j].path

(***************************************************************************)
(* Pack of paths that differ in letter case (SpecPackPaths)                *)
(***************************************************************************)
CasedPathPool ==
    \* a, A, b, and in UTF-8: É, é, d/É, d\é
    { <<97>>, <<65>>, <<98>>, <<195, 137>>, <<195, 169>>,
      <<100, 47, 195, 137>>, <<100, 92, 195, 169>> }

CasedInputLists ==
    { [i \in DOMAIN f |-> NewInput(f[i], <<i>>, 1)] :
        f \in { g \in UNION { [1..m -> CasedPathPool] : m \in 0..MaxInputs } :
                  Injective(g) } }

PackPathsInit ==
    /\ pc = "start"
    /\ call \in { [inputs |-> l, opts |-> NewOptions(<<>>, <<>>, 0, 0)] :
                    l \in CasedInputLists }
    /\ file = NoFile
    /\ baks = <<>>
    /\ chans = <<>>
    /\ ret = [op |-> "none"]
    /\ hist = <<>>

PackPathsNext == DoPack

SpecPackPaths == PackPathsInit /\ [][PackPathsNext]_vars

AsciiLower(s) == [i \in 1..Len(s) |-> IF s[i] \in 65..90 THEN s[i] + 32 ELSE s[i]]

\* C16: Pack fails with DUPLICATE_ENTRY_PATH if and only if two inputs have
\* canonical paths that are equal after lowercasing the ASCII letters A-Z only;
\* paths that differ in a non-ASCII byte are distinct entries and are both packed.
C16_DuplicateIffAsciiEqual ==
    (ret.op = "Pack" /\ ret.cancelAt = 0) =>
        LET canon == [i \in DOMAIN call.inputs |->
                         AsciiLower(normalizeArchiveEntryPath(call.inputs[i].Path).path)]
            equal == \E i, j \in DOMAIN canon : i < j /\ canon[i] = canon[j]
        IN  /\ (ret.err = "ErrDuplicateEntryPath") <=> equal
            /\ (~equal /\ call.inputs # <<>>) =>
                  /\ ret.err = ""
                  /\ Len(ret.res.entries) = Len(call.inputs)

(***************************************************************************)
(* DeleteDir over sibling names (SpecDeleteDir)                            *)
(***************************************************************************)
DirSourcePaths ==
    \* dir, dir\x, DIR\Sub\y, dir2\x, dirx
    << <<100, 105, 114>>, <<100, 105, 114, 92, 120>>,
       <<68, 73, 82, 92, 83, 117, 98, 92, 121>>,
       <<100, 105, 114, 50, 92, 120>>, <<100, 105, 114, 120>> >>

DirSource ==
    writeSHA1Trailer(
        Pack([i \in DOMAIN DirSourcePaths |-> NewInput(DirSourcePaths[i], <<i, i>>, 2)],
             NewOptions(<<>>, <<>>, 0, 0), 0).out)

DeleteDirPrefixPool ==
    \* dir, DIR/, Dir\sub, di, dir2, dirx, dir\x, zz
    { <<100, 105, 114>>, <<68, 73, 82, 47>>, <<68, 105, 114, 92, 115, 117, 98>>,
      <<100, 105>>, <<100, 105, 114, 50>>, <<100, 105, 114, 120>>,
      <<100, 105, 114, 92, 120>>, <<122, 122>> }

DeleteDirInit ==
    /\ pc = "idle"
    /\ call = [ops |-> <<>>, keep |-> 0, packOptions |-> NewOptions(<<>>, <<>>, 0, 0),
               maxOps |-> MaxOps, maxCommits |-> 1]
    /\ file = DirSource
    /\ baks = NoBackups
    /\ chans = <<>>
    /\ ret = [op |-> "none"]
    /\ hist = NewHistory(file)

DoDeleteDirOf(pool) == CanStage /\ \E prefix \in pool : StagePaths("deleteDir", prefix)

DeleteDirNext ==
    \/ DoDeleteDirOf(DeleteDirPrefixPool)
    \/ CommitPrepare
    \/ CommitMove
    \/ CommitRewrite
    \/ CommitRollback
    \/ CommitFinish

SpecDeleteDir == DeleteDirInit /\ [][DeleteDirNext]_vars

EntryPaths(b) ==
    \* the entry paths of the archive with the bytes b, in stored order
    LET Parsed(r) == [i \in DOMAIN r.entries |-> r.entries[i].Path]
    IN  Parsed(parse(b, DefaultReaderOptions))

InDirectory(path, prefix) ==
    \* path and prefix in canonical form: the same name, or the name under prefix\
    LET key == AsciiLower(path)
        dir == AsciiLower(prefix)
    IN  \/ key = dir
        \/ /\ Len(key) > Len(dir) + 1
           /\ SubSeq(key, 1, Len(dir)) = dir
           /\ key[Len(dir) + 1] = 92

StagedPrefixes == { call.ops[i].paths[1] : i \in DOMAIN call.ops }

\* C17: DeleteDir(prefix) removes exactly the entries whose case-insensitive
\* canonical path equals the canonical prefix or starts with the prefix followed by
\* a backslash.  Every other entry is kept, a sibling whose name merely begins
\* with the prefix string included, and a prefix that matches nothing does not
\* fail the Commit.
C17_DeleteDirPrefix ==
    (ret.op = "Commit") =>
        LET before == EntryPaths(hist.pre)
            kept == SelectSeq(before,
                              LAMBDA p : \A prefix \in StagedPrefixes : ~InDirectory(p, prefix))
        IN  /\ ret.err \in {"", "ErrCanceled"}
            /\ ret.err = "" => EntryPaths(file) = kept
            /\ ret.err # "" => file = hist.pre

C17_Witness ==
    /\ ret.op = "Commit" /\ ret.err = ""
    /\ StagedPrefixes = { <<68, 73, 82>> }
    /\ Len(EntryPaths(hist.pre)) = Len(DirSourcePaths)
    /\ EntryPaths(file) = << <<100, 105, 114, 50, 92, 120>>, <<100, 105, 114, 120>> >>

(***************************************************************************)
(* The file hash of archives in any index order (SpecFileHash)             *)
(*                                                                         *)
(* call = [entries, payloadLen, sign]; file = the archive bytes, with the  *)
(* payloads of the entries one after the other behind the index.           *)
(***************************************************************************)
SignedNamePool ==
    \* z.h, a.c, m.paa, and the empty name
    { <<122, 46, 104>>, <<97, 46, 99>>, <<109, 46, 112, 97, 97>>, <<>> }

SignedEntries(n) ==
    \* n index records with different names, raw or marked compressed, with a
    \* payload of 0, 2 or 3 bytes; the time stamp keeps a record with the empty
    \* name from being the terminator
    { [i \in 1..n |-> [Path |-> names[i], Offset |-> 0, DataSize |-> sizes[i],
                       OriginalSize |-> IF packed[i] THEN 9 ELSE 0, TimeStamp |-> 1,
                       MimeType |-> IF packed[i] THEN MimeCompress ELSE MimeNil]] :
        names \in { f \in [1..n -> SignedNamePool] : Injective(f) },
        sizes \in [1..n -> {0, 2, 3}],
        packed \in [1..n -> BOOLEAN] }

SignedArgs ==
    { [version |-> SignVersionV2, gameType |-> GameTypeAny],
      [version |-> SignVersionV3, gameType |-> <<68, 97, 121, 90>>],
      [version |-> SignVersionV3, gameType |-> GameTypeArma] }

FileHashInit ==
    /\ pc = "start"
    /\ call \in { [entries |-> es, payloadLen |-> SizeSum(es, Len(es))] :
                    es \in UNION { SignedEntries(n) : n \in 1..MaxEntries } }
    /\ file = ArchiveBytes(call.entries, call.payloadLen)
    /\ baks = <<>>
    /\ chans = <<>>
    /\ ret = [op |-> "none"]
    /\ hist = <<>>

DoComputeHashSetOf(signs) ==
    \* ComputeHashSet(path, version, gameType) on the archive at the path
    /\ pc = "start"
    /\ \E sign \in signs :
          LET Returned(hs) == ret' = [op |-> "ComputeHashSet", err |-> hs.err, hs |-> hs,
                                      sign |-> sign]
          IN  Returned(ComputeHashSet(file, sign.version, sign.gameType))
    /\ pc' = "done"
    /\ hist' = Append(hist, ret)
    /\ UNCHANGED <<call, chans, file, baks>>

FileHashNext == DoComputeHashSetOf(SignedArgs)

SpecFileHash == FileHashInit /\ [][FileHashNext]_vars

Contributes(e, sign) ==
    \* the entry qualifies for the file hash
    /\ e.Path # <<>>
    /\ e.DataSize # 0
    /\ shouldHashFileForSign(sign.version, sign.gameType, e.Path)

StoredBytes(i) ==
    \* the packed bytes of the i-th index record as they lie in the file
    LET first == Len(file) - call.payloadLen + SizeSum(call.entries, i - 1)
    IN  SubSeq(file, first + 1, first + call.entries[i].DataSize)

ExpectedHash3(sign) ==
    LET order == SelectSeq([i \in DOMAIN call.entries |-> i],
                           LAMBDA i : Contributes(call.entries[i], sign))
        fileHash == SHA1(IF order = <<>>
                         THEN IF sign.version = SignVersionV2
                              THEN <<110, 111, 116, 104, 105, 110, 103>>
                              ELSE <<103, 110, 105, 104, 116, 111, 110>>
                         ELSE Concat([k \in DOMAIN order |-> StoredBytes(order[k])]))
    IN  SHA1(fileHash \o computeSignNameHash(call.entries))

\* C18: the file hash, and with it hash3, is computed over the packed on-disk
\* bytes [offset, offset+data_size) of the qualifying entries concatenated in
\* stored index order.  Entries with an empty path, a zero data size or an
\* extension the version and game policy excludes contribute nothing, and when
\* no entry contributes the literal "nothing" (v2) or "gnihton" (v3) is hashed.
C18_FileHashStoredOrder ==
    ret.op = "ComputeHashSet" =>
        /\ ret.err = ""
        /\ ret.hs.Hash3 = ExpectedHash3(ret.sign)

C18_Witness ==
    /\ ret.op = "ComputeHashSet" /\ ret.err = ""
    /\ Len(call.entries) = 2
    /\ call.entries[1].Path = <<122, 46, 104>>
    /\ call.entries[2].Path = <<97, 46, 99>>
    /\ call.entries[1].MimeType = MimeCompress
    /\ \A i \in 1..2 : Contributes(call.entries[i], ret.sign)
    /\ StoredBytes(1) # StoredBytes(2)

(***************************************************************************)
(* The size filter (SpecSizeFilter)                                        *)
(*                                                                         *)
(* call = [entries, MinOriginalSize, MinDataSize]; ret = the filtered list *)
(***************************************************************************)
SizedEntries(n) ==
    \* n entries a, b, ...: original size absent, below or above the data size
    { [i \in 1..n |-> [Path |-> <<96 + i>>, Offset |-> 0, DataSize |-> sizes[i],
                       OriginalSize |-> originals[i], TimeStamp |-> 0,
                       MimeType |-> MimeNil]] :
        sizes \in [1..n -> {0, 2, 5}],
        originals \in [1..n -> {0, 3, 6}] }

SizeFilterInit ==
    /\ pc = "start"
    /\ call \in { [entries |-> es, MinOriginalSize |-> minOriginal, MinDataSize |-> minData] :
                    es \in UNION { SizedEntries(n) : n \in 0..MaxEntries },
                    minOriginal \in {0, 4}, minData \in {0, 3} }
    /\ file = NoFile
    /\ baks = <<>>
    /\ chans = <<>>
    /\ ret = [op |-> "none"]
    /\ hist = <<>>

DoFilterEntriesBySize ==
    /\ pc = "start"
    /\ ret' = [op |-> "filterEntriesBySize",
               entries |-> filterEntriesBySize(call.entries, call.MinOriginalSize,
                                               call.MinDataSize)]
    /\ pc' = "done"
    /\ UNCHANGED <<call, chans, file, baks, hist>>

SizeFilterNext == DoFilterEntriesBySize

SpecSizeFilter == SizeFilterInit /\ [][SizeFilterNext]_vars

\* C19: the size filter drops exactly the entries for which
\* max(original_size, data_size) < MinOriginalSize or data_size < MinDataSize and
\* keeps all other entries in their original order; with both thresholds 0 it
\* keeps every entry.
C19_SizeFilter ==
    ret.op = "filterEntriesBySize" =>
        LET larger(e) == IF e.OriginalSize > e.DataSize THEN e.OriginalSize ELSE e.DataSize
            dropped(e) == \/ larger(e) < call.MinOriginalSize
                          \/ e.DataSize < call.MinDataSize
        IN  /\ ret.entries = SelectSeq(call.entries, LAMBDA e : ~dropped(e))
            /\ (call.MinOriginalSize = 0 /\ call.MinDataSize = 0) => ret.entries = call.entries

(***************************************************************************)
(* Reader.Close among concurrent calls (SpecClose)                         *)
(*                                                                         *)
(* call  = [owned]: the Reader opened the file itself (r.file is set), or  *)
(*         it was built from a source the caller supplied                  *)
(* file  = [open, closes]: the file or source behind r.ra, and how often   *)
(*         Close was called on it                                          *)
(* chans = [mu, closed, op, seen, after]: the holder of r.mu (0: free),    *)
(*         r.closed, and per goroutine the call it is in, the value of     *)
(*         r.closed it read, whether a Close had returned when it began    *)
(* ret   = per goroutine what its last call returned                       *)
(* hist  = [closed, calls]: the Close calls returned, the calls begun      *)
(***************************************************************************)
MaxGoroutines == 2
MaxCalls == 3

Goroutines == 1..MaxGoroutines

ReaderCalls == {"OpenEntry", "OpenEntryInfo", "ReadEntry", "Extract"}

CloseInit ==
    /\ pc = [g \in Goroutines |-> "idle"]
    /\ call \in { [owned |-> o] : o \in BOOLEAN }
    /\ file = [open |-> TRUE, closes |-> 0]
    /\ baks = <<>>
    /\ chans = [mu |-> 0, closed |-> FALSE,
                op |-> [g \in Goroutines |-> "none"],
                seen |-> [g \in Goroutines |-> FALSE],
                after |-> [g \in Goroutines |-> FALSE]]
    /\ ret = [g \in Goroutines |-> [op |-> "none"]]
    /\ hist = [closed |-> 0, calls |-> 0]

Begin(g, op, at) ==
    \* goroutine g calls op
    /\ pc[g] = "idle"
    /\ hist.calls < MaxCalls
    /\ pc' = [pc EXCEPT ![g] = at]
    /\ chans' = [chans EXCEPT !.op[g] = op, !.after[g] = hist.closed > 0]
    /\ hist' = [hist EXCEPT !.calls = @ + 1]
    /\ UNCHANGED <<call, file, baks, ret>>

CallClose(g) == Begin(g, "Close", "close_lock")

CallReader(g) == \E op \in ReaderCalls : Begin(g, op, "read_closed")

CloseLockUnguarded(g) ==
    \* variant of CloseLock that does not wait for the mutex
    /\ pc[g] = "close_lock"
    /\ chans' = [chans EXCEPT !.mu = g]
    /\ pc' = [pc EXCEPT ![g] = "close_check"]
    /\ UNCHANGED <<call, file, baks, ret, hist>>

CloseLock(g) ==
    \* r.mu.Lock()
    /\ pc[g] = "close_lock"
    /\ chans.mu = 0
    /\ chans' = [chans EXCEPT !.mu = g]
    /\ pc' = [pc EXCEPT ![g] = "close_check"]
    /\ UNCHANGED <<call, file, baks, ret, hist>>

Returns(g, err) ==
    \* the call of goroutine g returns
    /\ ret' = [ret EXCEPT ![g] = [op |-> chans.op[g], err |-> err,
                                  after |-> chans.after[g]]]
    /\ pc' = [pc EXCEPT ![g] = "idle"]

CloseCheck(g) ==
    \* `if r.closed { return nil }`, else `r.closed = true`
    /\ pc[g] = "close_check"
    /\ IF chans.closed
       THEN /\ Returns(g, "")
            /\ chans' = [chans EXCEPT !.mu = 0]
            /\ hist' = [hist EXCEPT !.closed = @ + 1]
       ELSE /\ chans' = [chans EXCEPT !.closed = TRUE]
            /\ pc' = [pc EXCEPT ![g] = "close_file"]
            /\ UNCHANGED <<ret, hist>>
    /\ UNCHANGED <<call, file, baks>>

CloseFile(g) ==
    \* `if r.file != nil { return r.file.Close() }`, `return nil`; the deferred unlock
    /\ pc[g] = "close_file"
    /\ IF call.owned
       THEN /\ file' = [open |-> FALSE, closes |-> file.closes + 1]
            /\ Returns(g, IF file.open THEN "" ELSE "ErrFileClosed")
       ELSE /\ UNCHANGED file
            /\ Returns(g, "")
    /\ chans' = [chans EXCEPT !.mu = 0]
    /\ hist' = [hist EXCEPT !.closed = @ + 1]
    /\ UNCHANGED <<call, baks>>

ReadClosed(g) ==
    \* OpenEntry, OpenEntryInfo, Extract: `closed := r.closed` under r.mu
    /\ pc[g] = "read_closed"
    /\ chans.mu = 0
    /\ chans' = [chans EXCEPT !.seen[g] = chans.closed]
    /\ pc' = [pc EXCEPT ![g] = "proceed"]
    /\ UNCHANGED <<call, file, baks, ret, hist>>

Proceed(g) ==
    \* ErrClosed when the flag was set; otherwise the call goes on, and a call that
    \* reads payload bytes fails on a file closed in the meantime
    /\ pc[g] = "proceed"
    /\ Returns(g, IF chans.seen[g] THEN "ErrClosed"
                  ELSE IF chans.op[g] \in {"ReadEntry", "Extract"} /\ ~file.open
                  THEN "ErrFileClosed"
                  ELSE "")
    /\ UNCHANGED <<call, file, baks, chans, hist>>

CloseNext ==
    \E g \in Goroutines :
        \/ CallClose(g)
        \/ CallReader(g)
        \/ CloseLock(g)
        \/ CloseCheck(g)
        \/ CloseFile(g)
        \/ ReadClosed(g)
        \/ Proceed(g)

SpecClose == CloseInit /\ [][CloseNext]_vars

\* C20: Reader.Close is idempotent and safe under concurrent calls.  A file the
\* Reader opened itself is closed exactly once, every later Close returns nil, a
\* source the caller supplied is never closed, and a call of OpenEntry,
\* OpenEntryInfo, ReadEntry or Extract begun after a Close has returned fails with
\* CLOSED.
C20_CloseIdempotent ==
    /\ file.closes <= 1
    /\ (call.owned /\ hist.closed > 0) => (file.closes = 1 /\ ~file.open)
    /\ ~call.owned => (file.closes = 0 /\ file.open)
    /\ \A g \in Goroutines :
          /\ (ret[g].op = "Close" /\ ret[g].after) => ret[g].err = ""
          /\ (ret[g].op \in ReaderCalls /\ ret[g].after) => ret[g].err = "ErrClosed"

C20_Witness ==
    /\ call.owned
    /\ hist.closed >= 2
    /\ file.closes = 1
    /\ \E g, h \in Goroutines :
          /\ ret[g].op = "Close" /\ ret[g].after
          /\ ret[h].op = "ReadEntry" /\ ret[h].after /\ ret[h].err = "ErrClosed"

(***************************************************************************)
(* Commit, one file-system operation at a time (SpecCommitSteps)           *)
(*                                                                         *)
(* pc   = [at, todo, c]: where Commit stands, the backup-slot operations   *)
(*        still to run, the outcome of the rewrite under way               *)
(* call = [ops, keep, packOptions, cancelAt]: the staged operations and    *)
(*        options of the Commit under way                                  *)
(* hist = [pre, preBaks, commits, failed]: archive and backups when the    *)
(*        Commit under way was called, Commits returned, the last failed   *)
(***************************************************************************)
StagedOpPool ==
    \* nothing staged; Delete("a"); Add("n"); Add of an input whose stream fails;
    \* Replace of a path the archive does not hold
    { <<>>,
      <<[kind |-> "delete", inputs |-> <<>>, paths |-> normalizeEditorPaths(<<<<97>>>>).paths]>>,
      <<[kind |-> "add", paths |-> <<>>,
         inputs |-> normalizeEditorInputs(<<NewInput(<<110>>, Repeat(9, 6), 6)>>).inputs]>>,
      <<[kind |-> "add", paths |-> <<>>,
         inputs |-> normalizeEditorInputs(
                        <<[NewInput(<<114>>, <<5>>, 1) EXCEPT !.readErr = TRUE]>>).inputs]>>,
      <<[kind |-> "replace", paths |-> <<>>,
         inputs |-> normalizeEditorInputs(<<NewInput(<<122>>, <<1>>, 1)>>).inputs]>> }

SlotOps(keepIn) ==
    \* the file-system calls of prepareBackupSlot, in order, over the slot numbers
    LET keep == IF keepIn < 0 THEN 0 ELSE keepIn
        remove(i) == [kind |-> "removeIfExists", from |-> i, to |-> i]
        rename(from, to) == [kind |-> "renameIfExists", from |-> from, to |-> to]
    IN  IF keep <= 1 THEN <<remove(1)>>
        ELSE <<remove(keep)>>
             \o [k \in 1..(keep - 2) |-> rename(keep - k, keep - k + 1)]
             \o <<rename(1, 2)>>

NoCommit == [err |-> "", path |-> NoFile, res |-> NoResult]

CommitStepsInit ==
    /\ pc = [at |-> "idle", todo |-> <<>>, c |-> NoCommit]
    /\ call \in { [ops |-> <<>>, keep |-> k, packOptions |-> NewOptions(<<>>, <<>>, 0, 0),
                   cancelAt |-> 0] : k \in 0..MaxKeep }
    /\ file = EditSource
    /\ baks = NoBackups
    /\ chans = <<>>
    /\ ret = [op |-> "none"]
    /\ hist = [pre |-> NoFile, preBaks |-> <<>>, commits |-> 0, failed |-> FALSE]

StepCommit ==
    \* Commit is called with some operations staged
    /\ pc.at = "idle"
    /\ hist.commits < MaxCommits
    /\ \E ops \in StagedOpPool, cancelAt \in {0, 2} :
          call' = [call EXCEPT !.ops = ops, !.cancelAt = cancelAt]
    /\ pc' = [pc EXCEPT !.at = "prepare", !.todo = SlotOps(call.keep)]
    /\ hist' = [hist EXCEPT !.pre = file, !.preBaks = baks]
    /\ UNCHANGED <<file, baks, chans, ret>>

StepRemove ==
    \* removeIfExists, and the removeIfExists(to) of a renameIfExists whose source exists
    /\ pc.at = "prepare"
    /\ pc.todo # <<>>
    /\ LET op == Head(pc.todo)
       IN  IF op.kind = "removeIfExists"
           THEN /\ baks' = removeIfExists(baks, op.from)
                /\ pc' = [pc EXCEPT !.todo = Tail(@)]
           ELSE IF op.kind = "renameIfExists" /\ baks[op.from] = NoFile
           THEN /\ UNCHANGED baks
                /\ pc' = [pc EXCEPT !.todo = Tail(@)]
           ELSE /\ op.kind = "renameIfExists"
                /\ baks' = removeIfExists(baks, op.to)
                /\ pc' = [pc EXCEPT !.todo = <<[op EXCEPT !.kind = "rename"]>> \o Tail(@)]
    /\ UNCHANGED <<call, file, chans, ret, hist>>

StepRename ==
    \* the os.Rename of renameIfExists
    /\ pc.at = "prepare"
    /\ pc.todo # <<>>
    /\ Head(pc.todo).kind = "rename"
    /\ baks' = renameIfExists(baks, Head(pc.todo).from, Head(pc.todo).to)
    /\ pc' = [pc EXCEPT !.todo = Tail(@)]
    /\ UNCHANGED <<call, file, chans, ret, hist>>

StepMoveRemoving ==
    \* variant of StepMove that removes the archive instead of renaming it
    /\ pc.at = "prepare"
    /\ pc.todo = <<>>
    /\ file' = NoFile
    /\ pc' = [pc EXCEPT !.at = "moved"]
    /\ UNCHANGED <<baks, call, chans, ret, hist>>

StepMove ==
    \* os.Rename(e.path, backupPath)
    /\ pc.at = "prepare"
    /\ pc.todo = <<>>
    /\ baks' = [baks EXCEPT ![1] = file]
    /\ file' = NoFile
    /\ pc' = [pc EXCEPT !.at = "moved"]
    /\ UNCHANGED <<call, chans, ret, hist>>

StepPlan ==
    \* commitFromBackup up to the edit plan: the backup is opened and parsed
    /\ pc.at = "moved"
    /\ LET Planned(c) ==
               pc' = [pc EXCEPT !.c = c,
                                !.at = IF c.path = NoFile THEN "failed" ELSE "planned"]
       IN  Planned(commitFromBackup(baks[1], call.ops, call.packOptions, call.cancelAt))
    /\ UNCHANGED <<call, file, baks, chans, ret, hist>>

StepCreate ==
    \* os.OpenFile(e.path, O_RDWR|O_CREATE|O_TRUNC)
    /\ pc.at = "planned"
    /\ file' = <<>>
    /\ pc' = [pc EXCEPT !.at = "created"]
    /\ UNCHANGED <<call, baks, chans, ret, hist>>

StepWritePart ==
    \* rewriteArchive has written the first half of what it will write
    /\ pc.at = "created"
    /\ file' = SubSeq(pc.c.res.out, 1, Len(pc.c.res.out) \div 2)
    /\ pc' = [pc EXCEPT !.at = "writing"]
    /\ UNCHANGED <<call, baks, chans, ret, hist>>

StepWrite ==
    \* rewriteArchive returns, then Sync and Close
    /\ pc.at \in {"created", "writing"}
    /\ file' = pc.c.res.out
    /\ pc' = [pc EXCEPT !.at = IF pc.c.err # "" THEN "failed" ELSE "written"]
    /\ UNCHANGED <<call, baks, chans, ret, hist>>

StepTrailer ==
    \* writeSHA1Trailer(e.path): the rewritten archive is complete
    /\ pc.at = "written"
    /\ file' = writeSHA1Trailer(file)
    /\ pc' = [pc EXCEPT !.at = "complete"]
    /\ UNCHANGED <<call, baks, chans, ret, hist>>

StepRollbackRemove ==
    \* rollbackFromBackup: os.Remove(path)
    /\ pc.at = "failed"
    /\ file' = NoFile
    /\ pc' = [pc EXCEPT !.at = "removed"]
    /\ UNCHANGED <<call, baks, chans, ret, hist>>

StepRollbackRename ==
    \* rollbackFromBackup: os.Rename(backupPath, path); Commit returns the error
    /\ pc.at = "removed"
    /\ file' = baks[1]
    /\ baks' = [baks EXCEPT ![1] = NoFile]
    /\ ret' = [op |-> "Commit", err |-> pc.c.err]
    /\ hist' = [hist EXCEPT !.commits = @ + 1, !.failed = TRUE]
    /\ pc' = [at |-> "idle", todo |-> <<>>, c |-> NoCommit]
    /\ UNCHANGED <<call, chans>>

StepFinish ==
    \* the backup is removed when none is kept; Commit returns the result
    /\ pc.at = "complete"
    /\ baks' = IF call.keep = 0 THEN removeIfExists(baks, 1) ELSE baks
    /\ ret' = [op |-> "Commit", err |-> ""]
    /\ hist' = [hist EXCEPT !.commits = @ + 1, !.failed = FALSE]
    /\ pc' = [at |-> "idle", todo |-> <<>>, c |-> NoCommit]
    /\ UNCHANGED <<call, file, chans>>

CommitStepsNext ==
    \/ StepCommit
    \/ StepRemove
    \/ StepRename
    \/ StepMove
    \/ StepPlan
    \/ StepCreate
    \/ StepWritePart
    \/ StepWrite
    \/ StepTrailer
    \/ StepRollbackRemove
    \/ StepRollbackRename
    \/ StepFinish

SpecCommitSteps == CommitStepsInit /\ [][CommitStepsNext]_vars

\* C21: Commit never loses the only copy.  At every point of a Commit between
\* two file-system operations of the backup rotation, the rename to `.bak`, the
\* rewrite or the rollback, until the rewritten archive is complete, a complete
\* byte-exact copy of the pre-commit archive exists at the archive path or at
\* `<path>.bak`.
C21_NeverLosesOnlyCopy ==
    pc.at \notin {"idle", "complete"} =>
        /\ hist.pre # NoFile
        /\ file = hist.pre \/ baks[1] = hist.pre

C21_Witness ==
    /\ pc.at = "removed"
    /\ hist.commits >= 1
    /\ file = NoFile
    /\ baks[1] = hist.pre
    /\ baks[2] # NoFile

\* C24: a Commit that fails and is rolled back leaves the backup generations as
\* they were before the call: the set of existing `.bak` / `.bak.i` files and the
\* content of each is unchanged, for every BackupKeep value.
C24_FailedCommitKeepsBackups ==
    (pc.at = "idle" /\ ret.op = "Commit" /\ ret.err # "") =>
        /\ file = hist.pre
        /\ baks = hist.preBaks

FullyWritten(item) ==
    \* the output file of the work item holds the whole content of its entry
    /\ item.relPath \in DOMAIN file.files
    /\ openEntryByInfo(call.archive, item.entry).err = ""
    /\ file.files[item.relPath] = openEntryByInfo(call.archive, item.entry).data

\* C22: if Extract returns nil, every selected work item was fully written to its
\* output file, for every number of workers and every interleaving, those in
\* which the caller's context is cancelled while items are queued or being
\* written included.
C22_NilMeansAllWritten ==
    (pc.main = "done" /\ ret.op = "Extract" /\ ret.err = NilError) =>
        \A i \in DOMAIN chans.items : FullyWritten(chans.items[i])

(***************************************************************************)
(* Extract under fair scheduling (SpecExtractFair): every goroutine that   *)
(* can take a step eventually takes one; the caller need not cancel.       *)
(* Weak fairness WF_vars(A) is written out as []<>~ENABLED <<A>>_vars \/    *)
(* []<><<A>>_vars, with the enabling condition of A given by the guards of *)
(* its actions.                                                            *)
(***************************************************************************)
ProducerCanStep ==
    \/ pc.main = "start"
    \/ /\ pc.main = "produce"
       /\ \/ pc.next > Len(chans.items)
          \/ Len(chans.taskCh) < Len(chans.items)
          \/ chans.cancelled
    \/ /\ pc.main \in {"wait", "waitCancelled"}
       /\ \A w \in DOMAIN pc.w : pc.w[w] = "exited"

WorkerCanStep(w) ==
    /\ w \in DOMAIN pc.w
    /\ pc.main \in {"produce", "wait", "waitCancelled"}
    /\ \/ pc.w[w] = "idle" /\ chans.taskCh # <<>>
       \/ pc.w[w] = "idle" /\ chans.taskClosed
       \/ pc.w[w] = "extract"
       \/ pc.w[w] = "report" /\ (Len(chans.errCh) < Len(chans.items) \/ chans.cancelled)

ProducerStep ==
    \/ ExtractPrepare
    \/ ProducerSend
    \/ ProducerSeesDone
    \/ ProducerClose
    \/ ExtractFinish

WorkerStep(w) ==
    /\ w \in DOMAIN pc.w
    /\ \/ WorkerReceive(w)
       \/ WorkerExit(w)
       \/ WorkerExtract(w)
       \/ WorkerReport(w)
       \/ WorkerSeesDone(w)

SpecExtractFair ==
    /\ ExtractInit
    /\ [][ExtractNext]_vars
    /\ []<>~ProducerCanStep \/ []<><<ProducerStep>>_vars
    /\ \A w \in 1..MaxWorkers : []<>~WorkerCanStep(w) \/ []<><<WorkerStep(w)>>_vars

NeverBlocked ==
    \* a send the producer or a worker is about to make finds room in its channel,
    \* and no work item is handed to two workers
    /\ (pc.main = "produce" /\ pc.next <= Len(chans.items))
          => Len(chans.taskCh) < Len(chans.items)
    /\ \A w \in DOMAIN pc.w : pc.w[w] = "report" => Len(chans.errCh) < Len(chans.items)
    /\ \A i \in DOMAIN chans.taken : chans.taken[i] <= 1
    /\ pc.main = "done" => \A w \in DOMAIN pc.w : pc.w[w] = "exited"

\* C23: Extract is deadlock-free and terminates.  For any worker count >= 1 and
\* any number of work items, under fair scheduling the producer never blocks on
\* the task channel, no worker blocks forever on the error channel, each work
\* item is received by at most one worker, every worker exits after the task
\* channel is closed, and Extract returns, whether items succeed, fail or the
\* caller's context is cancelled.
C23_ExtractTerminates == []NeverBlocked /\ <>(pc.main = "done")

C23_Witness ==
    /\ pc.main = "done"
    /\ Len(pc.w) = 2
    /\ chans.callerCancelled
    /\ \A i \in DOMAIN chans.taken : chans.taken[i] = 1
    /\ Len(chans.errCh) < Len(chans.items)
    /\ \E i \in DOMAIN chans.errCh : chans.errCh[i].err = "ErrDecompress"

TailVerifies(b) ==
    \* the last 21 bytes are 0x00 and the SHA-1 of everything before them
    /\ Len(b) >= 21
    /\ b[Len(b) - 20] = 0
    /\ SubSeq(b, Len(b) - 19, Len(b)) = SHA1(SubSeq(b, 1, Len(b) - 21))

\* C25: writeSHA1Trailer never modifies or removes existing content unless the
\* tail is a valid trailer.  When the last 21 bytes are not 0x00 followed by the
\* SHA-1 of everything before them, even with 0x00 at size-21, all existing bytes
\* are left unchanged and exactly 21 bytes are appended; only when the tail
\* verifies are those 21 bytes overwritten in place, the length unchanged.
C25_TrailerKeepsContent ==
    (ret.op = "writeSHA1Trailer" /\ ret.err = "") =>
        IF TailVerifies(ret.before)
        THEN /\ Len(file) = Len(ret.before)
             /\ SubSeq(file, 1, Len(file) - 21) = SubSeq(ret.before, 1, Len(ret.before) - 21)
        ELSE /\ Len(file) = Len(ret.before) + 21
             /\ SubSeq(file, 1, Len(ret.before)) = ret.before

C25_Witness ==
    /\ ret.op = "writeSHA1Trailer" /\ ret.err = ""
    /\ Len(ret.before) > 21
    /\ ret.before[Len(ret.before) - 20] = 0
    /\ ~TailVerifies(ret.before)
    /\ Len(file) = Len(ret.before) + 21


(***************************************************************************)
(* The bounded streaming copy on its own (SpecCopy)                        *)
(*                                                                         *)
(* call = [src, limit]: a stream of up to MaxPayload bytes that answers    *)
(* `stalls` reads with (0, nil) once it has yielded `at` bytes and ends    *)
(* with io.EOF or a read error; ret = [written, err, st, dst].             *)
(***************************************************************************)
MaxPayload == 3

StallRuns == {0, 1, maxEmptyReads - 1, maxEmptyReads, maxEmptyReads + 1}

CopySources ==
    { [data |-> [i \in 1..n |-> 96 + i], pos |-> 0, stalls |-> stalls, at |-> at,
       fail |-> fail] :
        n \in 0..MaxPayload, stalls \in StallRuns, at \in 0..MaxPayload,
        fail \in BOOLEAN }

CopyInit ==
    /\ pc = "start"
    /\ call \in { [src |-> src, limit |-> limit] :
                    src \in { x \in CopySources : x.at <= Len(x.data) },
                    limit \in (-1)..MaxPayload }
    /\ file = NoFile
    /\ baks = <<>>
    /\ chans = <<>>
    /\ ret = [op |-> "none"]
    /\ hist = <<>>

DoCopyPayloadBounded ==
    /\ pc = "start"
    /\ LET Copied(c) == [op |-> "copyPayloadBounded", written |-> c.written,
                         err |-> c.err, st |-> c.st,
                         dst |-> SubSeq(call.src.data, 1, c.written)]
       IN  ret' = Copied(copyPayloadBounded(call.src, call.limit))
    /\ pc' = "done"
    /\ UNCHANGED <<call, chans, file, baks, hist>>

CopyNext == DoCopyPayloadBounded

SpecCopy == CopyInit /\ [][CopyNext]_vars

\* C26: copyPayloadBounded never writes more than limit bytes; from a source that
\* yields more than limit bytes it returns ErrSizeOverflow with written = limit and
\* the destination holding the first limit source bytes; from a source that ends at
\* or before limit it returns the exact count and no error; a negative limit fails
\* with ErrSizeOverflow without reading.  (Sources whose runs of empty reads stay
\* below the no-progress threshold.)
C26_BoundedCopy ==
    (ret.op = "copyPayloadBounded" /\ call.src.stalls < maxEmptyReads) =>
        IF call.limit < 0
        THEN ret.err = "ErrSizeOverflow" /\ ret.written = 0 /\ ret.st = call.src
        ELSE /\ ret.written <= call.limit
             /\ Len(call.src.data) > call.limit =>
                    /\ ret.err = "ErrSizeOverflow"
                    /\ ret.written = call.limit
                    /\ ret.dst = SubSeq(call.src.data, 1, call.limit)
             /\ (Len(call.src.data) <= call.limit /\ ~call.src.fail) =>
                    /\ ret.err = ""
                    /\ ret.written = Len(call.src.data)
                    /\ ret.dst = call.src.data

\* C27: the copy signals ErrNoProgress at a run of 100 consecutive empty reads:
\* once it has taken 100 consecutive (0, nil) reads it has failed with
\* ErrNoProgress, and it never fails so after fewer than 100.
C27_NoProgressAt100 ==
    ret.op = "copyPayloadBounded" =>
        LET emptyReads == call.src.stalls - ret.st.stalls
        IN  /\ emptyReads >= 100 => ret.err = "ErrNoProgress"
            /\ ret.err = "ErrNoProgress" => emptyReads >= 100


(***************************************************************************)
(* Pack near the 32-bit boundary (SpecPackOffsets)                         *)
(*                                                                         *)
(* One header whose value is as long as it takes to put the payload region *)
(* at maxPBOData - 3 .. maxPBOData + 1, and up to MaxInputs inputs a, b,   *)
(* ... of 0 to 2 bytes.                                                    *)
(***************************************************************************)
BoundaryDataStarts == (maxPBOData - 3)..(maxPBOData + 1)

BoundaryInputs(n) ==
    { [i \in 1..n |-> NewInput(<<96 + i>>, Repeat(120, sizes[i]), 0)] :
        sizes \in [1..n -> 0..2] }

BoundaryOptions(n, dataStart) ==
    \* header + key, NUL, value, NUL, NUL + n index records + the closing record
    NewOptions(<<[Key |-> <<107>>,
                  Value |-> Repeat(118, dataStart - headerSize - 4 - 22 * n - 21)]>>,
               <<>>, 0, 0)

PackOffsetsInit ==
    /\ pc = "start"
    /\ call \in { [inputs |-> l, opts |-> BoundaryOptions(Len(l), dataStart)] :
                    l \in UNION { BoundaryInputs(n) : n \in 1..MaxInputs },
                    dataStart \in BoundaryDataStarts }
    /\ file = NoFile
    /\ baks = <<>>
    /\ chans = <<>>
    /\ ret = [op |-> "none"]
    /\ hist = <<>>

PackOffsetsNext == DoPack

SpecPackOffsets == PackOffsetsInit /\ [][PackOffsetsNext]_vars

\* C28: writer offsets never wrap.  In a pack that is not cancelled, every entry's
\* offset is the exact value data_start + the data sizes written before it and
\* stays within 2^32-1 with its own size added; when data_start itself or a running
\* offset plus the next size exceeds 2^32-1 the pack fails with ErrSizeOverflow.
C28_OffsetsNeverWrap ==
    (ret.op = "Pack" /\ ret.cancelAt = 0) =>
        LET dataStart == ret.res.dataStart
            entries == ret.res.entries
            total == dataStart
                        + Len(Concat([i \in 1..Len(call.inputs) |-> call.inputs[i].data]))
        IN  /\ total > MaxUint32 => ret.err = "ErrSizeOverflow"
            /\ ret.err = "" =>
                  \A i \in 1..Len(entries) :
                     /\ entries[i].Offset = dataStart + SizeSum(entries, i - 1)
                     /\ entries[i].Offset + entries[i].DataSize <= MaxUint32


(***************************************************************************)
(* Pack of inputs whose SizeHint differs from what they yield              *)
(* (SpecPackHints)                                                         *)
(*                                                                         *)
(* Up to MaxInputs inputs a, b, ... of 2 or 6 equal bytes with SizeHint 0, *)
(* 3, the true length or 100; every path matches the one include rule "*". *)
(***************************************************************************)
HintedInputs(n) ==
    { [i \in 1..n |-> NewInput(<<96 + i>>, Repeat(120, sizes[i]),
                               IF hints[i] = 1 THEN sizes[i] ELSE hints[i])] :
        sizes \in [1..n -> {2, 6}],
        hints \in [1..n -> {0, 1, 3, 100}] }

HintedOptions ==
    { NewOptions(<<>>, <<[include |-> TRUE, Pattern |-> <<42>>]>>, 2, max) :
        max \in {4, 100} }

PackHintsInit ==
    /\ pc = "start"
    /\ call \in { [inputs |-> l, opts |-> o] :
                    l \in UNION { HintedInputs(n) : n \in 1..MaxInputs },
                    o \in HintedOptions }
    /\ file = NoFile
    /\ baks = <<>>
    /\ chans = <<>>
    /\ ret = [op |-> "none"]
    /\ hist = <<>>

PackHintsNext == DoPack

SpecPackHints == PackHintsInit /\ [][PackHintsNext]_vars

BufferedInMemory(in) ==
    \* a compression candidate with a known size within the compression window is
    \* read into memory before it is written
    /\ in.SizeHint > 0
    /\ in.SizeHint >= call.opts.MinCompressSize
    /\ in.SizeHint <= call.opts.MaxCompressSize

BufferedBytes(e) ==
    \* the length of the buffer the entry was written from
    IF e.MimeType = MimeCompress THEN e.OriginalSize ELSE e.DataSize

\* C29: in-memory compression is bounded.  For every input packed through the
\* in-memory path the writer has buffered at most SizeHint bytes, hence at most
\* MaxCompressSize bytes, also when the stream yields more than its SizeHint.
C29_InMemoryBounded ==
    (ret.op = "Pack" /\ ret.err = "" /\ ret.cancelAt = 0) =>
        \A i \in 1..Len(call.inputs) :
            BufferedInMemory(call.inputs[i]) =>
                \A k \in 1..Len(ret.res.entries) :
                    ret.res.entries[k].Path = call.inputs[i].Path =>
                        /\ BufferedBytes(ret.res.entries[k]) <= call.inputs[i].SizeHint
                        /\ BufferedBytes(ret.res.entries[k]) <= call.opts.MaxCompressSize


(***************************************************************************)
(* Opening an archive with and without the junk filter (SpecJunk)          *)
(*                                                                         *)
(* call = [entries, stored]: up to MaxEntries index records out of a pool  *)
(* of kept and junk ones, their offset fields zero or (stored) absolute;   *)
(* file = the archive, its payload region exactly as long as the data      *)
(* sizes add up to.  The archive is opened without the filter, then again  *)
(* in the same offset mode with it; hist holds both results.               *)
(***************************************************************************)
JunkRecord(path, mime, originalSize, dataSize) ==
    [Path |-> path, Offset |-> 0, DataSize |-> dataSize, OriginalSize |-> originalSize,
     TimeStamp |-> 0, MimeType |-> mime]

JunkRecordPool ==
    \* a raw; b empty; c compressed without original size; ..\e unsafe; d compressed
    << JunkRecord(<<97>>, MimeNil, 0, 2),
       JunkRecord(<<98>>, MimeNil, 0, 0),
       JunkRecord(<<99>>, MimeCompress, 0, 3),
       JunkRecord(<<46, 46, 92, 101>>, MimeNil, 0, 2),
       JunkRecord(<<100>>, MimeCompress, 9, 3) >>

RECURSIVE PathBytes(_, _)
PathBytes(entries, n) ==
    \* the bytes the first n index records take
    IF n = 0 THEN 0 ELSE Len(entries[n].Path) + 21 + PathBytes(entries, n - 1)

JunkDataStart(entries) == headerSize + 1 + PathBytes(entries, Len(entries)) + 21

JunkTables ==
    { [i \in DOMAIN f |-> JunkRecordPool[f[i]]] :
        f \in UNION { [1..n -> 1..Len(JunkRecordPool)] : n \in 0..MaxEntries } }

OnDisk(entries, stored) ==
    \* the index as a tool wrote it: offset fields zero or the absolute offsets
    [i \in 1..Len(entries) |->
        [entries[i] EXCEPT !.Offset = IF stored
                                      THEN JunkDataStart(entries) + SizeSum(entries, i - 1)
                                      ELSE 0]]

JunkInit ==
    /\ pc = "start"
    /\ call \in { [entries |-> es, stored |-> stored] :
                    es \in JunkTables, stored \in BOOLEAN }
    /\ file = ArchiveBytes(OnDisk(call.entries, call.stored),
                           SizeSum(call.entries, Len(call.entries)))
    /\ baks = <<>>
    /\ chans = <<>>
    /\ ret = [op |-> "none"]
    /\ hist = <<>>

DoOpenJunk ==
    \* OpenWithOptions: first with EnableJunkFilter off, then with it on
    /\ pc \in {"start", "plain"}
    /\ \E mode \in OffsetModes :
          /\ pc = "plain" => mode = ret.mode
          /\ LET Returned(r) == [op |-> "Open", mode |-> mode, junk |-> (pc = "plain"),
                                 err |-> r.err, entries |-> r.entries]
                 Opened(x) == ret' = x /\ hist' = Append(hist, x)
             IN  Opened(Returned(parse(file, [OffsetMode |-> mode,
                                              EnableJunkFilter |-> (pc = "plain")])))
    /\ pc' = IF pc = "start" THEN "plain" ELSE "filtered"
    /\ UNCHANGED <<call, chans, file, baks>>

JunkNext == DoOpenJunk

SpecJunk == JunkInit /\ [][JunkNext]_vars

IsJunk(e) ==
    \/ e.DataSize = 0
    \/ e.MimeType = MimeCompress /\ e.OriginalSize = 0
    \/ normalizeExtractEntryPath(e.Path).err # ""

SequentialEntries ==
    \* every index record at data_start plus the data sizes of all records before it
    [i \in 1..Len(call.entries) |->
        [call.entries[i] EXCEPT !.Offset = JunkDataStart(call.entries)
                                               + SizeSum(call.entries, i - 1)]]

\* C30: filtering happens after offset resolution.  Opened with the junk filter,
\* an archive gives the entries it gives without the filter less the junk ones (zero
\* data size, compressed with original size 0, extraction-unsafe path), each with
\* the same offset and data size and in the same order; the dropped records still
\* count with their data size in the sequential offsets of the later entries.
C30_FilterAfterOffsets ==
    pc = "filtered" =>
        /\ ret.junk /\ ~hist[1].junk /\ ret.mode = hist[1].mode
        /\ ret.err = hist[1].err
        /\ ret.entries = SelectSeq(hist[1].entries, LAMBDA e : ~IsJunk(e))
        /\ ret.err = "" => ret.entries = SelectSeq(SequentialEntries, LAMBDA e : ~IsJunk(e))

C30_Witness ==
    /\ pc = "filtered" /\ ret.err = "" /\ ret.mode = "sequential" /\ ~call.stored
    /\ Len(call.entries) = 2
    /\ IsJunk(call.entries[1]) /\ call.entries[1].DataSize = 3
    /\ Len(ret.entries) = 1
    /\ ret.entries[1].Offset = JunkDataStart(call.entries) + 3

====
